---- MODULE Spec2Model ----
(***************************************************************************)
(* A model of the media-digest pipeline: the item store (src/db/queries.py *)
(* over the tables of src/db/schema.py), the audio stage                   *)
(* (src/services/podcast_processor.py, src/cli/process_audio.py), the      *)
(* summarization stage (src/services/summarization.py,                     *)
(* src/cli/summarize.py) and the note writer (src/export/obsidian.py).     *)
(***************************************************************************)
EXTENDS Integers, Sequences, FiniteSets, TLC

VARIABLES
    episodes,     \* table episodes: a set of rows (guid is the primary key)
    newsletters,  \* table newsletters: a set of rows (message_id is the primary key)
    transcripts,  \* table transcripts: a set of rows (episode_guid is the primary key)
    summaries,    \* table summaries: a set of rows (item_id is the primary key)
    clock,        \* the value now() returns
    run,          \* the stage run in progress: its batch and its position in it
    hist,         \* what the run in progress has done so far (for the claims)
    files,        \* the note files of the vault: path -> file (or NoFile)
    last          \* the last operation performed, with its arguments and outcome

storeVars == <<episodes, newsletters, transcripts, summaries, clock>>
pipeVars == <<run, hist>>
vars == <<episodes, newsletters, transcripts, summaries, clock, run, hist,
          files, last>>

(***************************************************************************)
(* Bounds and input alphabets.                                             *)
(***************************************************************************)
MaxClock == 1

\* SQL NULL / Python None.
None == "<None>"

EpisodeGuids == {"ep-1"}
MessageIds == {"msg-1"}
Titles == {"Episode", "Updated Episode"}
FeedUrls == {"https://feed"}
Authors == {"Host"}
AudioUrls == {None, "https://audio"}
StoreAudioUrls == {"https://audio"}
VideoUrls == {None}
Senders == {"sender@example.com"}
Bodies == {None, "Hello"}
StoreBodies == {"Hello"}
Links == {None}
\* publish_date / date are ISO days; day d stands for 2025-10-0d.
StoreDates == {9}
Reasons == {None, "Download timeout"}

Statuses == {"pending", "in_progress", "completed", "failed", "skipped"}
\* The status argument of an upsert: the default and one other value.
UpsertStatuses == {"pending", "completed"}

\* The legal transition table of the specification (section 4.2).
LegalTransitions ==
    { <<"pending", "in_progress">>, <<"in_progress", "completed">>,
      <<"in_progress", "failed">>, <<"pending", "failed">>,
      <<"failed", "pending">>, <<"pending", "skipped">>,
      <<"in_progress", "skipped">> }

(***************************************************************************)
(* Rows and lookups.                                                       *)
(***************************************************************************)
EpisodeRows(rows, guid) == {r \in rows : r.guid = guid}
NewsletterRows(rows, message_id) == {r \in rows : r.message_id = message_id}

EpisodeRow(rows, guid) == CHOOSE r \in rows : r.guid = guid
NewsletterRow(rows, message_id) == CHOOSE r \in rows : r.message_id = message_id

\* The status stored for an identity, None when there is no row.
EpisodeStatus(rows, guid) ==
    IF EpisodeRows(rows, guid) = {} THEN None ELSE EpisodeRow(rows, guid).status
NewsletterStatus(rows, message_id) ==
    IF NewsletterRows(rows, message_id) = {} THEN None
    ELSE NewsletterRow(rows, message_id).status

(***************************************************************************)
(* upsert_episode: INSERT ... ON CONFLICT (guid) DO UPDATE SET title,      *)
(* audio_url, video_url, updated_at = now().                               *)
(***************************************************************************)
\* Variant: a replace instead of a merge (the conflict branch also takes
\* status and error_reason from the inserted row).
upsert_episode_replace(rows, guid, feed_url, title, publish_date, author, audio_url, video_url, status, now) ==
    IF EpisodeRows(rows, guid) # {}
    THEN { IF r.guid = guid
           THEN [r EXCEPT !.title = title, !.audio_url = audio_url,
                          !.video_url = video_url, !.status = status,
                          !.error_reason = None, !.updated_at = now]
           ELSE r : r \in rows }
    ELSE rows \cup
         { [guid |-> guid, feed_url |-> feed_url, title |-> title,
            publish_date |-> publish_date, author |-> author,
            audio_url |-> audio_url, video_url |-> video_url,
            status |-> status, error_reason |-> None,
            created_at |-> now, updated_at |-> now] }

\* Variant: a plain INSERT into a table without the key (no conflict branch).
upsert_episode_insert_only(rows, guid, feed_url, title, publish_date, author, audio_url, video_url, status, now) ==
    rows \cup
    { [guid |-> guid, feed_url |-> feed_url, title |-> title,
       publish_date |-> publish_date, author |-> author,
       audio_url |-> audio_url, video_url |-> video_url,
       status |-> "pending", error_reason |-> None,
       created_at |-> now, updated_at |-> now] }

upsert_episode(rows, guid, feed_url, title, publish_date, author, audio_url, video_url, status, now) ==
    IF EpisodeRows(rows, guid) # {}
    THEN { IF r.guid = guid
           THEN [r EXCEPT !.title = title, !.audio_url = audio_url,
                          !.video_url = video_url, !.updated_at = now]
           ELSE r : r \in rows }
    ELSE rows \cup
         { [guid |-> guid, feed_url |-> feed_url, title |-> title,
            publish_date |-> publish_date, author |-> author,
            audio_url |-> audio_url, video_url |-> video_url,
            status |-> status, error_reason |-> None,
            created_at |-> now, updated_at |-> now] }

(***************************************************************************)
(* upsert_newsletter: INSERT ... ON CONFLICT (message_id) DO UPDATE SET    *)
(* subject, body_html, body_text, link, updated_at = now().                *)
(***************************************************************************)
upsert_newsletter(rows, message_id, subject, sender, date, body_html, body_text, link, status, now) ==
    IF NewsletterRows(rows, message_id) # {}
    THEN { IF r.message_id = message_id
           THEN [r EXCEPT !.subject = subject, !.body_html = body_html,
                          !.body_text = body_text, !.link = link,
                          !.updated_at = now]
           ELSE r : r \in rows }
    ELSE rows \cup
         { [message_id |-> message_id, subject |-> subject, sender |-> sender,
            date |-> date, body_html |-> body_html, body_text |-> body_text,
            link |-> link, status |-> status, error_reason |-> None,
            created_at |-> now, updated_at |-> now] }

(***************************************************************************)
(* update_episode_status / update_newsletter_status: UPDATE ... SET        *)
(* status = ?, error_reason = ?, updated_at = now() WHERE key = ?.         *)
(* Neither reads the stored status, and neither raises.                    *)
(***************************************************************************)
\* Variant: the update is validated against the transition table and an
\* illegal move leaves the row as it is.
update_episode_status_validated(rows, guid, status, error_reason, now) ==
    { IF r.guid = guid /\ <<r.status, status>> \in LegalTransitions
      THEN [r EXCEPT !.status = status, !.error_reason = error_reason,
                     !.updated_at = now]
      ELSE r : r \in rows }

update_episode_status(rows, guid, status, error_reason, now) ==
    { IF r.guid = guid
      THEN [r EXCEPT !.status = status, !.error_reason = error_reason,
                     !.updated_at = now]
      ELSE r : r \in rows }

update_newsletter_status(rows, message_id, status, error_reason, now) ==
    { IF r.message_id = message_id
      THEN [r EXCEPT !.status = status, !.error_reason = error_reason,
                     !.updated_at = now]
      ELSE r : r \in rows }

(***************************************************************************)
(* The stage run in progress.                                              *)
(***************************************************************************)
IdleRun ==
    [stage |-> "idle", runner |-> None, batch |-> <<>>, idx |-> 0,
     step |-> None, text |-> None, resp |-> None, rating |-> None]

NoHist == [raised |-> {}, heard |-> {}, calls |-> {}, logged |-> {}]

NotePaths == {"2025-10-09 - Host - Episode.md"}

\* A path's file: whether it exists, whether its bytes decode as text, and
\* its text as the lines splitlines() yields, each a sequence of characters.
NoFile == [exists |-> FALSE, decodes |-> TRUE, lines |-> <<>>]

(***************************************************************************)
(* Transcripts and summaries.                                              *)
(***************************************************************************)
TranscriptRows(rows, guid) == {r \in rows : r.episode_guid = guid}
SummaryRows(rows, item_id) == {r \in rows : r.item_id = item_id}

\* PodcastProcessor: transcript_dir / f"{guid}.json".
TranscriptPath(guid) == <<"transcripts", guid, ".json">>

\* Variant: ON CONFLICT (episode_guid) DO NOTHING, the first transcript stays.
save_transcript_keep_first(rows, episode_guid, transcript_text, transcript_path, now) ==
    IF TranscriptRows(rows, episode_guid) # {}
    THEN rows
    ELSE rows \cup
         { [episode_guid |-> episode_guid, transcript_text |-> transcript_text,
            transcript_path |-> transcript_path, created_at |-> now] }

\* save_transcript: INSERT ... ON CONFLICT (episode_guid) DO UPDATE SET
\* transcript_text, transcript_path.
save_transcript(rows, episode_guid, transcript_text, transcript_path, now) ==
    IF TranscriptRows(rows, episode_guid) # {}
    THEN { IF r.episode_guid = episode_guid
           THEN [r EXCEPT !.transcript_text = transcript_text,
                          !.transcript_path = transcript_path]
           ELSE r : r \in rows }
    ELSE rows \cup
         { [episode_guid |-> episode_guid, transcript_text |-> transcript_text,
            transcript_path |-> transcript_path, created_at |-> now] }

\* save_summary: INSERT ... ON CONFLICT (item_id) DO UPDATE SET summary,
\* key_topics, companies, tools, quotes, raw_rating, final_rating. The insert
\* names no structured_summary column, which is left NULL.
save_summary(rows, item_id, item_type, summary, key_topics, companies, tools, quotes, raw_rating, final_rating, now) ==
    IF SummaryRows(rows, item_id) # {}
    THEN { IF r.item_id = item_id
           THEN [r EXCEPT !.summary = summary, !.key_topics = key_topics,
                          !.companies = companies, !.tools = tools,
                          !.quotes = quotes, !.raw_rating = raw_rating,
                          !.final_rating = final_rating]
           ELSE r : r \in rows }
    ELSE rows \cup
         { [item_id |-> item_id, item_type |-> item_type, summary |-> summary,
            key_topics |-> key_topics, companies |-> companies,
            tools |-> tools, quotes |-> quotes, raw_rating |-> raw_rating,
            final_rating |-> final_rating, structured_summary |-> None,
            created_at |-> now] }

\* The parameters save_summary declares, and the keyword arguments its two
\* callers of the summarization stage pass.
SaveSummaryParams ==
    {"item_id", "item_type", "summary", "key_topics", "companies", "tools",
     "quotes", "raw_rating", "final_rating"}
RepositoryKwargs == SaveSummaryParams \cup {"structured_summary"}
HandleKwargs == SaveSummaryParams \cup {"structured_summary"}

\* A Python call binds its keyword arguments to declared parameters and
\* raises TypeError for any other keyword.
CallAccepted(kwargs, params) == kwargs \subseteq params

(***************************************************************************)
(* Queries.                                                                *)
(***************************************************************************)
\* Variant of Truthy: only None is false, an empty string is true.
TruthyUnlessNone(x) == x # None

\* Python truthiness of an optional string.
Truthy(x) == x # None /\ x # ""

\* limit: int | None; NoLimit stands for None.
NoLimit == -1
TruthyLimit(n) == n # NoLimit /\ n # 0

\* The orders in which SELECT ... ORDER BY key DESC may return the rows:
\* every arrangement of them with the keys descending (ties in any order).
OrderedDesc(rows, key) ==
    { s \in [1..Cardinality(rows) -> rows] :
        /\ \A i, j \in 1..Cardinality(rows) : i # j => s[i] # s[j]
        /\ \A i, j \in 1..Cardinality(rows) : i < j => key[s[i]] >= key[s[j]] }

\* if limit: query += f" LIMIT {limit}".
Limited(s, limit) ==
    IF TruthyLimit(limit) /\ limit < Len(s) THEN SubSeq(s, 1, limit) ELSE s

\* The sort keys of the rows: publish_date of episodes, date of newsletters.
PublishDate(rows) == [r \in rows |-> r.publish_date]
NewsletterDate(rows) == [r \in rows |-> r.date]

\* get_pending_episodes / get_pending_newsletters: the possible results.
get_pending_episodes(eps, limit) ==
    LET pending == {r \in eps : r.status = "pending"}
    IN { Limited(s, limit) : s \in OrderedDesc(pending, PublishDate(pending)) }

get_pending_newsletters(nls, limit) ==
    LET pending == {r \in nls : r.status = "pending"}
    IN { Limited(s, limit) : s \in OrderedDesc(pending, NewsletterDate(pending)) }

\* The row of the episodes-transcripts join for episode e and transcript t.
JoinedEpisode(e, t) ==
    [guid |-> e.guid, feed_url |-> e.feed_url, title |-> e.title,
     publish_date |-> e.publish_date, author |-> e.author,
     audio_url |-> e.audio_url, video_url |-> e.video_url,
     status |-> e.status, error_reason |-> e.error_reason,
     created_at |-> e.created_at, updated_at |-> e.updated_at,
     transcript_text |-> t.transcript_text,
     transcript_path |-> t.transcript_path]

\* Variant: the anti-join ignores the summaries table.
EpisodesNeedingSummaryAll(eps, trs, sums) ==
    { JoinedEpisode(e, t) :
        <<e, t>> \in { x \in eps \X trs :
                        /\ x[1].guid = x[2].episode_guid
                        /\ x[1].status = "completed" } }

\* FROM episodes e INNER JOIN transcripts t ON e.guid = t.episode_guid
\* LEFT JOIN summaries s ON e.guid = s.item_id AND s.item_type = 'podcast'
\* WHERE e.status = 'completed' AND s.item_id IS NULL.
EpisodesNeedingSummary(eps, trs, sums) ==
    { JoinedEpisode(e, t) :
        <<e, t>> \in { x \in eps \X trs :
                        /\ x[1].guid = x[2].episode_guid
                        /\ x[1].status = "completed"
                        /\ ~\E u \in sums : /\ u.item_id = x[1].guid
                                            /\ u.item_type = "podcast" } }

\* FROM newsletters n LEFT JOIN summaries s ON n.message_id = s.item_id
\* AND s.item_type = 'newsletter' WHERE n.status = 'completed' AND
\* s.item_id IS NULL.
NewslettersNeedingSummary(nls, sums) ==
    { n \in nls :
        /\ n.status = "completed"
        /\ ~\E u \in sums : /\ u.item_id = n.message_id
                            /\ u.item_type = "newsletter" }

get_completed_episodes_needing_summary(eps, trs, sums, limit) ==
    LET needing == EpisodesNeedingSummary(eps, trs, sums)
    IN { Limited(s, limit) : s \in OrderedDesc(needing, PublishDate(needing)) }

get_completed_newsletters_needing_summary(nls, sums, limit) ==
    LET needing == NewslettersNeedingSummary(nls, sums)
    IN { Limited(s, limit) : s \in OrderedDesc(needing, NewsletterDate(needing)) }

(***************************************************************************)
(* Store operations as actions.                                            *)
(***************************************************************************)
\* now() advances between statements.
Tick ==
    /\ clock < MaxClock
    /\ clock' = clock + 1
    /\ last' = [op |-> "tick"]
    /\ UNCHANGED <<episodes, newsletters, transcripts, summaries, run, hist,
                   files>>

UpsertEpisode(guid, feed_url, title, publish_date, author, audio_url, video_url, status) ==
    /\ episodes' = upsert_episode(episodes, guid, feed_url, title, publish_date,
                                  author, audio_url, video_url, status, clock)
    /\ last' = [op |-> "upsert_episode", id |-> guid,
                existed |-> EpisodeRows(episodes, guid) # {},
                same |-> \E r \in episodes :
                            /\ r.guid = guid /\ r.feed_url = feed_url
                            /\ r.title = title /\ r.publish_date = publish_date
                            /\ r.author = author /\ r.audio_url = audio_url
                            /\ r.video_url = video_url,
                status |-> status]
    /\ UNCHANGED <<newsletters, transcripts, summaries, clock, run, hist,
                   files>>

UpsertNewsletter(message_id, subject, sender, date, body_html, body_text, link, status) ==
    /\ newsletters' = upsert_newsletter(newsletters, message_id, subject, sender,
                                        date, body_html, body_text, link,
                                        status, clock)
    /\ last' = [op |-> "upsert_newsletter", id |-> message_id,
                existed |-> NewsletterRows(newsletters, message_id) # {},
                same |-> \E r \in newsletters :
                            /\ r.message_id = message_id /\ r.subject = subject
                            /\ r.sender = sender /\ r.date = date
                            /\ r.body_html = body_html
                            /\ r.body_text = body_text /\ r.link = link,
                status |-> status]
    /\ UNCHANGED <<episodes, transcripts, summaries, clock, run, hist, files>>

\* update_episode_status(conn, guid, status, error_reason); "raised" records
\* whether the call ended in an exception, which the code never does.
UpdateEpisodeStatus(guid, status, error_reason) ==
    /\ episodes' = update_episode_status(episodes, guid, status, error_reason,
                                         clock)
    /\ last' = [op |-> "update_episode_status", id |-> guid,
                from |-> EpisodeStatus(episodes, guid), to |-> status,
                reason |-> error_reason, raised |-> FALSE]
    /\ UNCHANGED <<newsletters, transcripts, summaries, clock, run, hist,
                   files>>

UpdateNewsletterStatus(message_id, status, error_reason) ==
    /\ newsletters' = update_newsletter_status(newsletters, message_id, status,
                                               error_reason, clock)
    /\ last' = [op |-> "update_newsletter_status", id |-> message_id,
                from |-> NewsletterStatus(newsletters, message_id),
                to |-> status, reason |-> error_reason, raised |-> FALSE]
    /\ UNCHANGED <<episodes, transcripts, summaries, clock, run, hist, files>>

\* EpisodeRepository.mark_in_progress / mark_completed / mark_failed.
MarkInProgress(guid) == UpdateEpisodeStatus(guid, "in_progress", None)
MarkCompleted(guid) == UpdateEpisodeStatus(guid, "completed", None)
MarkFailed(guid, reason) == UpdateEpisodeStatus(guid, "failed", reason)

(***************************************************************************)
(* The audio stage: PodcastProcessor.process_pending (and the same loop in *)
(* the process-audio command). The stage is one sequential loop; its steps *)
(* are separate actions so that the order of its writes can be observed.   *)
(***************************************************************************)
Idle == run.stage = "idle"
Current == run.batch[run.idx]
InBatch == run.idx >= 1 /\ run.idx <= Len(run.batch)

\* Variant of AfterFailure: the loop ends at the first item that fails.
AbortBatch(r) ==
    [r EXCEPT !.idx = Len(r.batch) + 1, !.step = "check", !.text = None,
              !.resp = None, !.rating = None]

\* The loop moves to the next item (continue, or the end of the body).
NextItem(r) ==
    [r EXCEPT !.idx = @ + 1, !.step = "check", !.text = None,
              !.resp = None, !.rating = None]

\* except Exception as exc: ... mark_failed(episode.guid, str(exc)); the loop
\* then goes on with the next episode.
AfterFailure(r) == NextItem(r)

\* Variant: the handler records a fixed reason.
mark_failed_generic(rows, guid, reason, now) ==
    update_episode_status(rows, guid, "failed", "error", now)

mark_failed(rows, guid, reason, now) ==
    update_episode_status(rows, guid, "failed", reason, now)

\* Variant: the claim is not written.
mark_in_progress_skipped(rows, guid, now) == rows

mark_in_progress(rows, guid, now) ==
    update_episode_status(rows, guid, "in_progress", None, now)

mark_completed(rows, guid, now) ==
    update_episode_status(rows, guid, "completed", None, now)

\* process_pending(limit): episodes = self._episodes.get_pending(limit).
AudioStart(limit) ==
    /\ Idle
    /\ \E b \in get_pending_episodes(episodes, limit) :
          run' = [IdleRun EXCEPT !.stage = "audio", !.runner = "process_pending",
                                 !.batch = b, !.idx = 1, !.step = "check"]
    /\ hist' = NoHist
    /\ last' = [op |-> "audio_start", limit |-> limit]
    /\ UNCHANGED <<episodes, newsletters, transcripts, summaries, clock, files>>

\* if not episode.audio_url: mark_failed(guid, "No audio URL"); continue.
AudioNoUrl ==
    /\ run.stage = "audio" /\ InBatch /\ run.step = "check"
    /\ ~Truthy(Current.audio_url)
    /\ episodes' = mark_failed(episodes, Current.guid, "No audio URL", clock)
    /\ run' = NextItem(run)
    /\ last' = [op |-> "audio_no_url", id |-> Current.guid]
    /\ UNCHANGED <<newsletters, transcripts, summaries, clock, hist, files>>

\* try: mark_in_progress(guid).
AudioClaim ==
    /\ run.stage = "audio" /\ InBatch /\ run.step = "check"
    /\ Truthy(Current.audio_url)
    /\ episodes' = mark_in_progress(episodes, Current.guid, clock)
    /\ run' = [run EXCEPT !.step = "download"]
    /\ last' = [op |-> "audio_claim", id |-> Current.guid]
    /\ UNCHANGED <<newsletters, transcripts, summaries, clock, hist, files>>

\* audio_path = self._audio_downloader(...) returns.
AudioDownloadOk ==
    /\ run.stage = "audio" /\ InBatch /\ run.step = "download"
    /\ run' = [run EXCEPT !.step = "transcribe"]
    /\ hist' = [hist EXCEPT !.calls = @ \cup {<<Current.guid, "download">>}]
    /\ last' = [op |-> "audio_download", id |-> Current.guid]
    /\ UNCHANGED <<episodes, newsletters, transcripts, summaries, clock, files>>

\* transcript = self._transcriber.transcribe(audio_path) returns text.
AudioTranscribeOk(text) ==
    /\ run.stage = "audio" /\ InBatch /\ run.step = "transcribe"
    /\ run' = [run EXCEPT !.step = "persist", !.text = text]
    /\ hist' = [hist EXCEPT !.heard = @ \cup {<<Current.guid, text>>},
                            !.calls = @ \cup {<<Current.guid, "transcribe">>}]
    /\ last' = [op |-> "audio_transcribe", id |-> Current.guid]
    /\ UNCHANGED <<episodes, newsletters, transcripts, summaries, clock, files>>

\* save_transcript_file(...); self._transcripts.save(guid, transcript["text"],
\* transcript_path).
AudioPersistOk ==
    /\ run.stage = "audio" /\ InBatch /\ run.step = "persist"
    /\ transcripts' = save_transcript(transcripts, Current.guid, run.text,
                                      TranscriptPath(Current.guid), clock)
    /\ run' = [run EXCEPT !.step = "complete"]
    /\ last' = [op |-> "audio_persist", id |-> Current.guid]
    /\ UNCHANGED <<episodes, newsletters, summaries, clock, hist, files>>

\* self._episodes.mark_completed(guid).
AudioComplete ==
    /\ run.stage = "audio" /\ InBatch /\ run.step = "complete"
    /\ episodes' = mark_completed(episodes, Current.guid, clock)
    /\ run' = NextItem(run)
    /\ last' = [op |-> "audio_complete", id |-> Current.guid]
    /\ UNCHANGED <<newsletters, transcripts, summaries, clock, hist, files>>

\* The download, the transcription or the persistence of the transcript
\* raises an exception with message msg; the except clause marks the episode
\* failed with str(exc).
AudioRaise(at, msg) ==
    /\ run.stage = "audio" /\ InBatch /\ run.step = at
    /\ episodes' = mark_failed(episodes, Current.guid, msg, clock)
    /\ run' = AfterFailure(run)
    /\ hist' = [hist EXCEPT !.raised = @ \cup {<<Current.guid, msg>>},
                            !.calls = @ \cup {<<Current.guid, at>>}]
    /\ last' = [op |-> "audio_raise", id |-> Current.guid, at |-> at]
    /\ UNCHANGED <<newsletters, transcripts, summaries, clock, files>>

\* The loop is over: process_pending returns.
AudioFinish ==
    /\ run.stage = "audio" /\ run.idx > Len(run.batch)
    /\ run' = [run EXCEPT !.stage = "audio_done"]
    /\ last' = [op |-> "audio_finish"]
    /\ UNCHANGED <<episodes, newsletters, transcripts, summaries, clock, hist,
                   files>>

\* The command has returned; the next command may start.
Return ==
    /\ run.stage \in {"audio_done", "newsletter_done", "summarize_done",
                      "summarize_raised"}
    /\ run' = IdleRun
    /\ hist' = NoHist
    /\ last' = [op |-> "return"]
    /\ UNCHANGED <<episodes, newsletters, transcripts, summaries, clock, files>>

(***************************************************************************)
(* The item store on its own: any sequence of upserts and status updates.  *)
(***************************************************************************)
StoreInit ==
    /\ episodes = {}
    /\ newsletters = {}
    /\ transcripts = {}
    /\ summaries = {}
    /\ clock = 0
    /\ run = IdleRun
    /\ hist = NoHist
    /\ files = [p \in NotePaths |-> NoFile]
    /\ last = [op |-> "init"]

StoreNext ==
    \/ Tick
    \/ \E g \in EpisodeGuids, f \in FeedUrls, t \in Titles, d \in StoreDates,
          a \in Authors, au \in StoreAudioUrls, v \in VideoUrls,
          s \in UpsertStatuses :
          UpsertEpisode(g, f, t, d, a, au, v, s)
    \/ \E m \in MessageIds, su \in Titles, se \in Senders, d \in StoreDates,
          h \in {None}, b \in StoreBodies, l \in Links, s \in UpsertStatuses :
          UpsertNewsletter(m, su, se, d, h, b, l, s)
    \/ \E g \in EpisodeGuids, s \in Statuses, e \in Reasons :
          UpdateEpisodeStatus(g, s, e)
    \/ \E g \in EpisodeGuids : MarkInProgress(g)
    \/ \E g \in EpisodeGuids : MarkCompleted(g)
    \/ \E g \in EpisodeGuids, e \in Reasons \ {None} : MarkFailed(g, e)
    \/ \E m \in MessageIds, s \in Statuses, e \in Reasons :
          UpdateNewsletterStatus(m, s, e)

SpecStore == StoreInit /\ [][StoreNext]_vars

(***************************************************************************)
(* parse_newsletter of process/newsletter_parser.py.  A stored body is a   *)
(* string; BodyChars gives the characters of each body the model uses, an  *)
(* HTML tag being one element.  The bodies have no line break.             *)
(***************************************************************************)
HtmlTags == {"<p>", "</p>"}

BodyChars ==
    [b \in {"", "  ", "Hello", " Hi  there ", "<p>Yo</p>"} |->
        CASE b = "" -> <<>>
          [] b = "  " -> <<" ", " ">>
          [] b = "Hello" -> <<"H", "e", "l", "l", "o">>
          [] b = " Hi  there " ->
               <<" ", "H", "i", " ", " ", "t", "h", "e", "r", "e", " ">>
          [] b = "<p>Yo</p>" -> <<"<p>", "Y", "o", "</p>">>]

\* str.strip(): without the leading and trailing whitespace.
RECURSIVE Strip(_)
Strip(s) ==
    IF s = <<>> THEN s
    ELSE IF Head(s) = " " THEN Strip(Tail(s))
    ELSE IF s[Len(s)] = " " THEN Strip(SubSeq(s, 1, Len(s) - 1))
    ELSE s

\* re.sub(r" +", " ", text): a run of spaces becomes one space.
RECURSIVE CollapseSpaces(_)
CollapseSpaces(s) ==
    IF Len(s) <= 1 THEN s
    ELSE IF s[1] = " " /\ s[2] = " " THEN CollapseSpaces(Tail(s))
    ELSE <<s[1]>> \o CollapseSpaces(Tail(s))

\* clean_text, for a text of one line: spaces collapsed, then stripped.
clean_text(chars) == Strip(CollapseSpaces(chars))

\* html_to_text: the text nodes of the document (get_text), cleaned.
html_to_text(chars) == clean_text(SelectSeq(chars, LAMBDA c : c \notin HtmlTags))

\* body and body.strip(): the body is not None, not empty and not blank.
NonBlank(body) == body # None /\ Strip(BodyChars[body]) # <<>>

\* Variant of parse_newsletter: the HTML body is preferred.
parse_newsletter_html_first(body_html, body_text) ==
    IF NonBlank(body_html) THEN html_to_text(BodyChars[body_html])
    ELSE IF NonBlank(body_text) THEN clean_text(BodyChars[body_text])
    ELSE <<>>

\* if body_text and body_text.strip(): return clean_text(body_text)
\* if body_html and body_html.strip(): return html_to_text(body_html)
\* return "".
parse_newsletter(body_html, body_text) ==
    IF NonBlank(body_text) THEN clean_text(BodyChars[body_text])
    ELSE IF NonBlank(body_html) THEN html_to_text(BodyChars[body_html])
    ELSE <<>>

(***************************************************************************)
(* The newsletter stage: the process-newsletters command.                  *)
(***************************************************************************)
\* pending = get_pending_newsletters(conn, limit=args.limit).
NewsletterStart(limit) ==
    /\ Idle
    /\ \E b \in get_pending_newsletters(newsletters, limit) :
          run' = [IdleRun EXCEPT !.stage = "newsletter",
                                 !.runner = "process_newsletters",
                                 !.batch = b, !.idx = 1, !.step = "check"]
    /\ hist' = NoHist
    /\ last' = [op |-> "newsletter_start", limit |-> limit]
    /\ UNCHANGED <<episodes, newsletters, transcripts, summaries, clock, files>>

\* try: update_newsletter_status(conn, message_id, "in_progress").
NewsletterClaim ==
    /\ run.stage = "newsletter" /\ InBatch /\ run.step = "check"
    /\ newsletters' = update_newsletter_status(newsletters, Current.message_id,
                                               "in_progress", None, clock)
    /\ run' = [run EXCEPT !.step = "parse"]
    /\ last' = [op |-> "newsletter_claim", id |-> Current.message_id]
    /\ UNCHANGED <<episodes, transcripts, summaries, clock, hist, files>>

\* parsed_text = parse_newsletter(body_html, body_text); the parsed text, its
\* preview and the digest entry are saved;
\* update_newsletter_status(..., "completed").
NewsletterComplete ==
    /\ run.stage = "newsletter" /\ InBatch /\ run.step = "parse"
    /\ newsletters' = update_newsletter_status(newsletters, Current.message_id,
                                               "completed", None, clock)
    /\ run' = NextItem(run)
    /\ last' = [op |-> "newsletter_complete", id |-> Current.message_id,
                parsed |-> parse_newsletter(Current.body_html,
                                            Current.body_text)]
    /\ UNCHANGED <<episodes, transcripts, summaries, clock, hist, files>>

\* except Exception as exc: update_newsletter_status(..., "failed", str(exc)).
NewsletterRaise(msg) ==
    /\ run.stage = "newsletter" /\ InBatch /\ run.step = "parse"
    /\ newsletters' = update_newsletter_status(newsletters, Current.message_id,
                                               "failed", msg, clock)
    /\ run' = NextItem(run)
    /\ hist' = [hist EXCEPT !.raised = @ \cup {<<Current.message_id, msg>>}]
    /\ last' = [op |-> "newsletter_raise", id |-> Current.message_id]
    /\ UNCHANGED <<episodes, transcripts, summaries, clock, files>>

NewsletterFinish ==
    /\ run.stage = "newsletter" /\ run.idx > Len(run.batch)
    /\ run' = [run EXCEPT !.stage = "newsletter_done"]
    /\ last' = [op |-> "newsletter_finish"]
    /\ UNCHANGED <<episodes, newsletters, transcripts, summaries, clock, hist,
                   files>>

(***************************************************************************)
(* The summarization stage: SummarizationService.summarize_pending         *)
(* (runner "service") and the summarize command (runner "handle").         *)
(***************************************************************************)
PodcastCandidate(e) ==
    [id |-> e.guid, item_type |-> "podcast", title |-> e.title,
     author |-> e.author, date |-> e.publish_date]

NewsletterCandidate(n) ==
    [id |-> n.message_id, item_type |-> "newsletter", title |-> n.subject,
     author |-> n.sender, date |-> n.date]

\* The items needing a summary: completed items of either kind without a
\* Summary row for their identity and kind.
ItemsNeedingSummary(eps, nls, sums) ==
    { PodcastCandidate(e) :
        e \in { x \in eps :
                  /\ x.status = "completed"
                  /\ ~\E u \in sums : /\ u.item_id = x.guid
                                      /\ u.item_type = "podcast" } }
    \cup
    { NewsletterCandidate(n) : n \in NewslettersNeedingSummary(nls, sums) }

CandidateDate(rows) == [c \in rows |-> c.date]

\* get_items_needing_summary(conn, limit): the possible results.
get_items_needing_summary(eps, nls, sums, limit) ==
    LET needing == ItemsNeedingSummary(eps, nls, sums)
    IN { Limited(s, limit) : s \in OrderedDesc(needing, CandidateDate(needing)) }

\* get_transcript_text(conn, episode_guid): the text, or None without a row.
get_transcript_text(trs, guid) ==
    IF TranscriptRows(trs, guid) = {} THEN None
    ELSE (CHOOSE t \in trs : t.episode_guid = guid).transcript_text

\* The keyword arguments a runner passes to queries.save_summary.
SaveKwargs(runner) ==
    IF runner = "service" THEN RepositoryKwargs
    ELSE IF runner = "handle" THEN HandleKwargs
    ELSE SaveSummaryParams

\* Variant of SkipsKind: no kind is skipped.
SkipsKindNever(runner, item_type) == FALSE

\* if candidate.item_type != "podcast": continue, in summarize_pending and in
\* the summarize command's handle; cmd_summarize has no such test.
SkipsKind(runner, item_type) ==
    runner # "cmd_summarize" /\ item_type # "podcast"

\* Variant of AfterSummarizeError: the candidate's episode is marked failed
\* as the audio stage does.
AfterSummarizeErrorMarksFailed(eps, item_id, msg, now) ==
    update_episode_status(eps, item_id, "failed", msg, now)

\* The episodes after a candidate's exception: the except clause of the
\* summarize commands logs it, summarize_pending lets it pass; no status is
\* written.
AfterSummarizeError(eps, item_id, msg, now) == eps

\* The runners that catch an exception per item and log it.
CatchesPerItem(runner) == runner \in {"handle", "cmd_summarize"}

\* The text a runner summarizes for candidate c: the transcript text of an
\* episode; cmd_summarize also takes a newsletter's body_text ("" if null).
ContentText(c, trs, nls) ==
    IF c.item_type = "podcast" THEN get_transcript_text(trs, c.id)
    ELSE IF \E n \in nls : n.message_id = c.id /\ n.body_text # None
         THEN (CHOOSE n \in nls : n.message_id = c.id).body_text
         ELSE ""

\* What an exception raised while a candidate is processed does to the run:
\* the summarize commands catch it per item and go on; summarize_pending
\* has no handler, so the exception leaves the loop and the method.
OnSummarizeException(r) ==
    IF CatchesPerItem(r.runner) THEN NextItem(r)
    ELSE [r EXCEPT !.stage = "summarize_raised"]

\* candidates = self._summaries.get_pending(limit) /
\* items = get_items_needing_summary(conn, limit=args.limit).
SummarizeStart(runner, limit) ==
    /\ Idle
    /\ \E b \in get_items_needing_summary(episodes, newsletters, summaries,
                                          limit) :
          run' = [IdleRun EXCEPT !.stage = "summarize", !.runner = runner,
                                 !.batch = b, !.idx = 1, !.step = "check"]
    /\ hist' = NoHist
    /\ last' = [op |-> "summarize_start", limit |-> limit]
    /\ UNCHANGED <<episodes, newsletters, transcripts, summaries, clock, files>>

\* if candidate.item_type != "podcast": continue (not in cmd_summarize).
SummarizeSkipKind ==
    /\ run.stage = "summarize" /\ InBatch /\ run.step = "check"
    /\ SkipsKind(run.runner, Current.item_type)
    /\ run' = NextItem(run)
    /\ last' = [op |-> "summarize_skip_kind", id |-> Current.id]
    /\ UNCHANGED <<episodes, newsletters, transcripts, summaries, clock, hist,
                   files>>

\* if not transcript_text: continue (no row, or an empty text).
SummarizeSkipNoTranscript ==
    /\ run.stage = "summarize" /\ InBatch /\ run.step = "check"
    /\ ~SkipsKind(run.runner, Current.item_type)
    /\ ~Truthy(ContentText(Current, transcripts, newsletters))
    /\ run' = NextItem(run)
    /\ last' = [op |-> "summarize_skip_no_transcript", id |-> Current.id]
    /\ UNCHANGED <<episodes, newsletters, transcripts, summaries, clock, hist,
                   files>>

\* The transcript text is there: the summarizer is called next.
SummarizeFetch ==
    /\ run.stage = "summarize" /\ InBatch /\ run.step = "check"
    /\ ~SkipsKind(run.runner, Current.item_type)
    /\ Truthy(ContentText(Current, transcripts, newsletters))
    /\ run' = [run EXCEPT !.step = "summarize",
                          !.text = ContentText(Current, transcripts, newsletters)]
    /\ last' = [op |-> "summarize_fetch", id |-> Current.id]
    /\ UNCHANGED <<episodes, newsletters, transcripts, summaries, clock, hist,
                   files>>

\* summary = self._summarizer(...) returns resp.
SummarizerOk(resp) ==
    /\ run.stage = "summarize" /\ InBatch /\ run.step = "summarize"
    /\ run' = [run EXCEPT !.step = "rate", !.resp = resp]
    /\ hist' = [hist EXCEPT !.calls = @ \cup {<<Current.id, "summarizer">>}]
    /\ last' = [op |-> "summarizer", id |-> Current.id]
    /\ UNCHANGED <<episodes, newsletters, transcripts, summaries, clock, files>>

\* rating = self._rater(...) returns rating.
RaterOk(rating) ==
    /\ run.stage = "summarize" /\ InBatch /\ run.step = "rate"
    /\ run' = [run EXCEPT !.step = "save", !.rating = rating]
    /\ hist' = [hist EXCEPT !.calls = @ \cup {<<Current.id, "rater">>}]
    /\ last' = [op |-> "rater", id |-> Current.id]
    /\ UNCHANGED <<episodes, newsletters, transcripts, summaries, clock, files>>

\* The summarizer (at = "summarize") or the rater (at = "rate") raises.
SummarizeRaise(at, msg) ==
    /\ run.stage = "summarize" /\ InBatch /\ run.step = at
    /\ run' = OnSummarizeException(run)
    /\ hist' = [hist EXCEPT
                  !.calls = @ \cup {<<Current.id, IF at = "summarize"
                                                 THEN "summarizer" ELSE "rater">>},
                  !.raised = @ \cup {<<Current.id, msg>>},
                  !.logged = IF CatchesPerItem(run.runner)
                             THEN @ \cup {Current.id} ELSE @]
    /\ episodes' = AfterSummarizeError(episodes, Current.id, msg, clock)
    /\ last' = [op |-> "summarize_raise", id |-> Current.id, at |-> at]
    /\ UNCHANGED <<newsletters, transcripts, summaries, clock, files>>

\* save_summary(..., structured_summary=...): the call is bound to the
\* parameters of queries.save_summary; when it binds, the row is written,
\* otherwise it raises TypeError before any statement runs.
SummarizeSave ==
    /\ run.stage = "summarize" /\ InBatch /\ run.step = "save"
    /\ IF CallAccepted(SaveKwargs(run.runner), SaveSummaryParams)
       THEN /\ episodes' = episodes
            /\ summaries' = save_summary(summaries, Current.id,
                                         Current.item_type, run.resp,
                                         run.resp, run.resp, run.resp, run.resp,
                                         run.rating, run.rating, clock)
            /\ run' = NextItem(run)
            /\ hist' = hist
       ELSE /\ episodes' = AfterSummarizeError(episodes, Current.id,
                                                "TypeError", clock)
            /\ summaries' = summaries
            /\ run' = OnSummarizeException(run)
            /\ hist' = [hist EXCEPT
                          !.raised = @ \cup {<<Current.id, "TypeError">>},
                          !.logged = IF CatchesPerItem(run.runner)
                                     THEN @ \cup {Current.id} ELSE @]
    /\ last' = [op |-> "summarize_save", id |-> Current.id]
    /\ UNCHANGED <<newsletters, transcripts, clock, files>>

SummarizeFinish ==
    /\ run.stage = "summarize" /\ run.idx > Len(run.batch)
    /\ run' = [run EXCEPT !.stage = "summarize_done"]
    /\ last' = [op |-> "summarize_finish"]
    /\ UNCHANGED <<episodes, newsletters, transcripts, summaries, clock, hist,
                   files>>

(***************************************************************************)
(* The pipeline: discovery and the three stages, one command at a time.    *)
(***************************************************************************)
MaxLimit == 1
Limits == {NoLimit} \cup 0..MaxLimit

PipeGuids == {"ep-1", "ep-2"}
PipeDates == {9, 10}
PipeMessageIds == {"msg-1"}
Texts == {"", "Transcript text"}
DownloadErrors == {"Download timeout"}
TranscribeErrors == {"ASR failed"}
PersistErrors == {"Disk full"}
ParseErrors == {"Parse failed"}
LlmErrors == {"Rate limited"}
Runners == {"service", "handle", "cmd_summarize"}
Responses == {"Episode summary"}
Ratings == {5}

\* discover: upsert_episode(...) for a discovered episode, status defaulted.
DiscoverEpisode(guid, publish_date, audio_url) ==
    /\ Idle
    /\ UpsertEpisode(guid, "https://feed", "Episode", publish_date, "Host",
                     audio_url, None, "pending")

DiscoverNewsletter(message_id) ==
    /\ Idle
    /\ UpsertNewsletter(message_id, "Episode", "sender@example.com", 9, None,
                        "Hello", None, "pending")

PipeInit == StoreInit

PipeNext ==
    \/ \E g \in PipeGuids, d \in PipeDates, au \in AudioUrls :
          DiscoverEpisode(g, d, au)
    \/ \E m \in PipeMessageIds : DiscoverNewsletter(m)
    \/ \E n \in Limits : AudioStart(n)
    \/ AudioNoUrl
    \/ AudioClaim
    \/ AudioDownloadOk
    \/ \E t \in Texts : AudioTranscribeOk(t)
    \/ AudioPersistOk
    \/ AudioComplete
    \/ \E m \in DownloadErrors : AudioRaise("download", m)
    \/ \E m \in TranscribeErrors : AudioRaise("transcribe", m)
    \/ \E m \in PersistErrors : AudioRaise("persist", m)
    \/ AudioFinish
    \/ \E n \in Limits : NewsletterStart(n)
    \/ NewsletterClaim
    \/ NewsletterComplete
    \/ \E m \in ParseErrors : NewsletterRaise(m)
    \/ NewsletterFinish
    \/ \E r \in Runners, n \in Limits : SummarizeStart(r, n)
    \/ SummarizeSkipKind
    \/ SummarizeSkipNoTranscript
    \/ SummarizeFetch
    \/ \E x \in Responses : SummarizerOk(x)
    \/ \E x \in Ratings : RaterOk(x)
    \/ \E m \in LlmErrors : SummarizeRaise("summarize", m)
    \/ \E m \in LlmErrors : SummarizeRaise("rate", m)
    \/ SummarizeSave
    \/ SummarizeFinish
    \/ Return

SpecPipeline == PipeInit /\ [][PipeNext]_vars

(***************************************************************************)
(* The summarization eligibility queries over a store that discovery, the  *)
(* status updates, save_transcript and save_summary have filled.           *)
(***************************************************************************)
\* The (guid, publish_date) pairs discovery finds, and the (item_id,
\* item_type) pairs summaries are saved for: a summary of each item, and one
\* of the other kind under the identity of an episode.
QueryEpisodes == {<<"ep-1", 9>>, <<"ep-2", 10>>}
QuerySummaries ==
    {<<"ep-1", "podcast">>, <<"ep-1", "newsletter">>, <<"ep-2", "podcast">>,
     <<"msg-1", "newsletter">>}

\* save_transcript(conn, episode_guid, transcript_text, transcript_path).
SaveTranscript(episode_guid, transcript_text) ==
    /\ transcripts' = save_transcript(transcripts, episode_guid,
                                      transcript_text,
                                      TranscriptPath(episode_guid), clock)
    /\ last' = [op |-> "save_transcript", id |-> episode_guid]
    /\ UNCHANGED <<episodes, newsletters, summaries, clock, run, hist, files>>

\* save_summary(conn, item_id, item_type, ...).
SaveSummary(item_id, item_type, summary, rating) ==
    /\ summaries' = save_summary(summaries, item_id, item_type, summary,
                                 summary, summary, summary, summary, rating,
                                 rating, clock)
    /\ last' = [op |-> "save_summary", id |-> item_id, item_type |-> item_type,
                summary |-> summary]
    /\ UNCHANGED <<episodes, newsletters, transcripts, clock, run, hist, files>>

\* rows = get_completed_episodes_needing_summary(conn, limit).
GetCompletedEpisodesNeedingSummary(limit) ==
    /\ \E res \in get_completed_episodes_needing_summary(
                      episodes, transcripts, summaries, limit) :
          last' = [op |-> "get_completed_episodes_needing_summary",
                   limit |-> limit, result |-> res]
    /\ UNCHANGED <<episodes, newsletters, transcripts, summaries, clock, run,
                   hist, files>>

\* rows = get_completed_newsletters_needing_summary(conn, limit).
GetCompletedNewslettersNeedingSummary(limit) ==
    /\ \E res \in get_completed_newsletters_needing_summary(
                      newsletters, summaries, limit) :
          last' = [op |-> "get_completed_newsletters_needing_summary",
                   limit |-> limit, result |-> res]
    /\ UNCHANGED <<episodes, newsletters, transcripts, summaries, clock, run,
                   hist, files>>

\* The summary text saved with each kind of item.
QueryResponses ==
    [podcast |-> "Episode summary", newsletter |-> "Newsletter summary"]

QueryInit == StoreInit

QueryNext ==
    \/ \E x \in QueryEpisodes : DiscoverEpisode(x[1], x[2], "https://audio")
    \/ \E m \in PipeMessageIds : DiscoverNewsletter(m)
    \/ \E g \in PipeGuids, s \in Statuses : UpdateEpisodeStatus(g, s, None)
    \/ \E m \in PipeMessageIds, s \in {"completed", "failed"} :
          UpdateNewsletterStatus(m, s, None)
    \/ \E g \in PipeGuids : SaveTranscript(g, "Transcript text")
    \/ \E y \in QuerySummaries, r \in Ratings :
          SaveSummary(y[1], y[2], QueryResponses[y[2]], r)
    \/ \E n \in Limits : GetCompletedEpisodesNeedingSummary(n)
    \/ \E n \in Limits : GetCompletedNewslettersNeedingSummary(n)

SpecQuery == QueryInit /\ [][QueryNext]_vars

(***************************************************************************)
(* The note writer: check_manual_edit and write_note of export/obsidian.py *)
(* over the note files, which the user edits between export runs.          *)
(***************************************************************************)
MaxNoteLines == 2

RatingEmpty == <<"r", "a", "t", "i", "n", "g", ":">>
RatingBlank == <<"r", "a", "t", "i", "n", "g", ":", " ">>
RatingFive == <<"r", "a", "t", "i", "n", "g", ":", " ", "5">>
RatingUpper == <<"R", "A", "T", "I", "N", "G", ":", "4">>
RatingLlm == <<"r", "a", "t", "i", "n", "g", "_", "l", "l", "m", ":", "4">>
RatingIndented == <<" ", "r", "a", "t", "i", "n", "g", ":", "5">>
Fence == <<"-", "-", "-">>
Heading == <<"#", " ", "T">>

NoteLines ==
    {RatingEmpty, RatingBlank, RatingFive, RatingUpper, RatingLlm,
     RatingIndented, Fence, Heading}

\* The texts of at most MaxNoteLines lines.
NoteTexts == UNION { [1..n -> NoteLines] : n \in 0..MaxNoteLines }

\* The notes the renderer produces: the rating is left for the user.
NoteContents == { <<Fence, RatingEmpty>>, <<RatingEmpty, Heading>> }

\* str.lower(), on the letters of the alphabet above.
LowerChar(c) ==
    CASE c = "R" -> "r"
      [] c = "A" -> "a"
      [] c = "T" -> "t"
      [] c = "I" -> "i"
      [] c = "N" -> "n"
      [] c = "G" -> "g"
      [] OTHER -> c

Lower(line) == [i \in 1..Len(line) |-> LowerChar(line[i])]

\* str.startswith(prefix).
StartsWith(line, prefix) ==
    /\ Len(line) >= Len(prefix)
    /\ SubSeq(line, 1, Len(prefix)) = prefix

\* str.partition(sep)[2]: what follows the first sep; empty without a sep.
AfterFirst(line, sep) ==
    IF \E i \in 1..Len(line) : line[i] = sep
    THEN LET k == CHOOSE i \in 1..Len(line) :
                      /\ line[i] = sep
                      /\ \A j \in 1..(i - 1) : line[j] # sep
         IN SubSeq(line, k + 1, Len(line))
    ELSE <<>>

\* Variant of check_manual_edit: the value is not stripped.
check_manual_edit_unstripped(file) ==
    IF ~file.exists THEN FALSE
    ELSE IF ~file.decodes THEN FALSE
    ELSE LET found == { i \in 1..Len(file.lines) :
                          StartsWith(Lower(file.lines[i]), RatingEmpty) }
         IN IF found = {} THEN FALSE
            ELSE LET first == CHOOSE i \in found : \A j \in found : i <= j
                 IN AfterFirst(file.lines[first], ":") # <<>>

\* check_manual_edit(note_path): False without a file; the first line whose
\* lower-case form starts with "rating:" decides (the loop breaks after it);
\* an exception while reading is logged and the result is False.
check_manual_edit(file) ==
    IF ~file.exists THEN FALSE
    ELSE IF ~file.decodes THEN FALSE
    ELSE LET found == { i \in 1..Len(file.lines) :
                          StartsWith(Lower(file.lines[i]), RatingEmpty) }
         IN IF found = {} THEN FALSE
            ELSE LET first == CHOOSE i \in found : \A j \in found : i <= j
                 IN Strip(AfterFirst(file.lines[first], ":")) # <<>>

\* Path.write_text(content): the file holds the text content, encoded.
WrittenFile(content) == [exists |-> TRUE, decodes |-> TRUE, lines |-> content]

\* write_note(output_path, content, check_edit): the file afterwards and the
\* value returned.
write_note(file, content, check_edit) ==
    IF check_edit /\ check_manual_edit(file)
    THEN [file |-> file, returned |-> FALSE]
    ELSE [file |-> WrittenFile(content), returned |-> TRUE]

WriteNote(path, content, check_edit) ==
    /\ files' = [files EXCEPT
                   ![path] = write_note(files[path], content, check_edit).file]
    /\ last' = [op |-> "write_note", path |-> path, content |-> content,
                check_edit |-> check_edit,
                returned |-> write_note(files[path], content,
                                        check_edit).returned]
    /\ UNCHANGED <<episodes, newsletters, transcripts, summaries, clock, run,
                   hist>>

\* The user saves the note with another text, or with bytes that are not
\* valid text.
UserEdit(path, text, decodes) ==
    /\ files' = [files EXCEPT ![path] = [exists |-> TRUE, decodes |-> decodes,
                                         lines |-> text]]
    /\ last' = [op |-> "user_edit", path |-> path]
    /\ UNCHANGED <<episodes, newsletters, transcripts, summaries, clock, run,
                   hist>>

\* The user deletes the note.
UserDelete(path) ==
    /\ files[path].exists
    /\ files' = [files EXCEPT ![path] = NoFile]
    /\ last' = [op |-> "user_delete", path |-> path]
    /\ UNCHANGED <<episodes, newsletters, transcripts, summaries, clock, run,
                   hist>>

NoteInit == StoreInit

NoteNext ==
    \/ \E p \in NotePaths, c \in NoteContents, b \in BOOLEAN : WriteNote(p, c, b)
    \/ \E p \in NotePaths, t \in NoteTexts, d \in BOOLEAN : UserEdit(p, t, d)
    \/ \E p \in NotePaths : UserDelete(p)

SpecNote == NoteInit /\ [][NoteNext]_vars

(***************************************************************************)
(* The manual commands: retry and skip (src/cli/retry.py, src/cli/skip.py, *)
(* cmd_retry and cmd_skip of cli.py) and the maintenance script            *)
(* scripts/reset_yt_dlp_failures.py.                                       *)
(***************************************************************************)
\* error_reason LIKE '%No such file or directory: 'yt-dlp'%': the reasons of
\* the alphabet that contain RESET_PATTERN.
YtDlpMissing == "[Errno 2] No such file or directory: 'yt-dlp'"
MatchesResetPattern(reason) == reason = YtDlpMissing

\* retry: UPDATE episodes SET status = 'pending', error_reason = NULL,
\* updated_at = now() WHERE guid = ?, when an episode has the id.
\* Variant of retry_episodes: the recorded reason is kept.
retry_episodes_keeping_reason(eps, item_id, now) ==
    { IF r.guid = item_id
      THEN [r EXCEPT !.status = "pending", !.updated_at = now]
      ELSE r : r \in eps }

retry_episodes(eps, item_id, now) ==
    { IF r.guid = item_id
      THEN [r EXCEPT !.status = "pending", !.error_reason = None,
                     !.updated_at = now]
      ELSE r : r \in eps }

\* retry: the newsletter is looked up only when no episode has the id.
retry_newsletters(eps, nls, item_id, now) ==
    IF EpisodeRows(eps, item_id) # {} THEN nls
    ELSE { IF r.message_id = item_id
           THEN [r EXCEPT !.status = "pending", !.error_reason = None,
                          !.updated_at = now]
           ELSE r : r \in nls }

\* skip: UPDATE episodes SET status = 'skipped', updated_at = now() WHERE
\* guid = ? (error_reason is not in the SET list).
skip_episodes(eps, item_id, now) ==
    { IF r.guid = item_id
      THEN [r EXCEPT !.status = "skipped", !.updated_at = now]
      ELSE r : r \in eps }

\* skip: the newsletters are updated only when the episodes update reports
\* no row (rowcount, the number of rows the UPDATE changed).
skip_newsletters(eps, nls, item_id, now) ==
    IF Cardinality(EpisodeRows(eps, item_id)) # 0 THEN nls
    ELSE { IF r.message_id = item_id
           THEN [r EXCEPT !.status = "skipped", !.updated_at = now]
           ELSE r : r \in nls }

\* reset_missing_yt_dlp_failures: UPDATE episodes SET status = 'pending',
\* error_reason = NULL, updated_at = now() WHERE error_reason LIKE ?.
reset_missing_yt_dlp_failures(eps, now) ==
    { IF MatchesResetPattern(r.error_reason)
      THEN [r EXCEPT !.status = "pending", !.error_reason = None,
                     !.updated_at = now]
      ELSE r : r \in eps }

\* The status stored under an id before a command: the episode's, else the
\* newsletter's, else None.
StatusOfId(eps, nls, item_id) ==
    IF EpisodeRows(eps, item_id) # {} THEN EpisodeStatus(eps, item_id)
    ELSE NewsletterStatus(nls, item_id)

Retry(item_id) ==
    /\ Idle
    /\ episodes' = retry_episodes(episodes, item_id, clock)
    /\ newsletters' = retry_newsletters(episodes, newsletters, item_id, clock)
    /\ last' = [op |-> "retry", id |-> item_id,
                from |-> StatusOfId(episodes, newsletters, item_id)]
    /\ UNCHANGED <<transcripts, summaries, clock, run, hist, files>>

Skip(item_id) ==
    /\ Idle
    /\ episodes' = skip_episodes(episodes, item_id, clock)
    /\ newsletters' = skip_newsletters(episodes, newsletters, item_id, clock)
    /\ last' = [op |-> "skip", id |-> item_id,
                from |-> StatusOfId(episodes, newsletters, item_id)]
    /\ UNCHANGED <<transcripts, summaries, clock, run, hist, files>>

ResetMissingYtDlpFailures ==
    /\ Idle
    /\ episodes' = reset_missing_yt_dlp_failures(episodes, clock)
    /\ last' = [op |-> "reset_missing_yt_dlp_failures",
                count |-> Cardinality({r \in episodes :
                                         MatchesResetPattern(r.error_reason)})]
    /\ UNCHANGED <<newsletters, transcripts, summaries, clock, run, hist, files>>

\* The message ids discovery finds: one of them is also an episode's guid
\* (the two tables have separate primary keys).
LifeMessageIds == PipeMessageIds \cup {"ep-1"}

\* The ids the commands are given: an episode's, a newsletter's, and one no
\* item has.
CommandIds == PipeGuids \cup LifeMessageIds \cup {"no-such-id"}

\* The episodes discovery finds (guid, publish_date, audio_url): the more
\* recent one comes without an audio URL. The limits the stage runs are given.
LifeEpisodes == {<<"ep-1", 9, "https://audio">>, <<"ep-2", 10, None>>}
LifeLimits == {NoLimit, 1}

LifeInit == StoreInit

LifeNext ==
    \/ \E x \in LifeEpisodes : DiscoverEpisode(x[1], x[2], x[3])
    \/ \E m \in LifeMessageIds : DiscoverNewsletter(m)
    \/ \E n \in LifeLimits : AudioStart(n)
    \/ AudioNoUrl
    \/ AudioClaim
    \/ AudioDownloadOk
    \/ \E t \in Texts : AudioTranscribeOk(t)
    \/ AudioPersistOk
    \/ AudioComplete
    \/ AudioRaise("download", YtDlpMissing)
    \/ AudioFinish
    \/ \E n \in LifeLimits : NewsletterStart(n)
    \/ NewsletterClaim
    \/ NewsletterComplete
    \/ \E m \in ParseErrors : NewsletterRaise(m)
    \/ NewsletterFinish
    \/ \E r \in Runners, n \in LifeLimits : SummarizeStart(r, n)
    \/ SummarizeSkipKind
    \/ SummarizeSkipNoTranscript
    \/ SummarizeFetch
    \/ \E x \in Responses : SummarizerOk(x)
    \/ \E x \in Ratings : RaterOk(x)
    \/ \E m \in LlmErrors : SummarizeRaise("summarize", m)
    \/ SummarizeSave
    \/ SummarizeFinish
    \/ Return
    \/ \E i \in CommandIds : Retry(i)
    \/ \E i \in CommandIds : Skip(i)
    \/ ResetMissingYtDlpFailures

SpecLifecycle == LifeInit /\ [][LifeNext]_vars

(***************************************************************************)
(* sanitize_filename of export/obsidian.py, over strings as sequences of   *)
(* characters.                                                             *)
(***************************************************************************)
MaxFilenameLen == 180
MaxTail == 3

\* The class [\\/\0\t\n\r:*?"<>|] of the first substitution ("NUL" stands
\* for the character \0).
IllegalChars ==
    {"\\", "/", "NUL", "\t", "\n", "\r", ":", "*", "?", "\"", "<", ">", "|"}

\* The characters \s matches and str.strip() removes ("VT" stands for the
\* vertical tab).
WhitespaceChars == {" ", "\t", "\n", "\r", "\f", "VT"}

\* re.sub(r"\s+", " ", s): every maximal run of whitespace becomes one space.
\* The halves are collapsed and joined; a run that spans the joint leaves a
\* space on both sides, of which one is kept.
RECURSIVE CollapseWhitespace(_)
CollapseWhitespace(s) ==
    IF Len(s) = 0 THEN s
    ELSE IF Len(s) = 1
         THEN IF s[1] \in WhitespaceChars THEN <<" ">> ELSE s
         ELSE LET h == Len(s) \div 2
                  l == CollapseWhitespace(SubSeq(s, 1, h))
                  r == CollapseWhitespace(SubSeq(s, h + 1, Len(s)))
              IN IF l[Len(l)] = " " /\ r[1] = " " THEN l \o Tail(r)
                 ELSE l \o r

\* sanitize_filename: replace the illegal characters by "_", collapse the
\* whitespace and strip, then return sanitized[:180].
sanitize_filename(name) ==
    LET replaced == [i \in 1..Len(name) |->
                       IF name[i] \in IllegalChars THEN "_" ELSE name[i]]
        stripped == Strip(CollapseWhitespace(replaced))
    IN SubSeq(stripped, 1,
              IF Len(stripped) < MaxFilenameLen THEN Len(stripped)
              ELSE MaxFilenameLen)

\* safe = sanitize_filename(name), for the name the call was given.
SanitizeFilename ==
    /\ last.op = "call_sanitize_filename"
    /\ last' = [op |-> "sanitize_filename", name |-> last.name,
                result |-> sanitize_filename(last.name)]
    /\ UNCHANGED <<episodes, newsletters, transcripts, summaries, clock, run,
                   hist, files>>

\* The names sanitized: nothing or a run of letters that ends just below the
\* length bound, followed by up to MaxTail characters: a letter, a space, a
\* form feed, a tab or a slash.
SanitizeChars == {"a", " ", "\f", "\t", "/"}
SanitizeNames ==
    { [i \in 1..n |-> "a"] \o t :
        n \in {0, MaxFilenameLen - 2, MaxFilenameLen - 1},
        t \in UNION {[1..k -> SanitizeChars] : k \in 0..MaxTail} }

\* A call of sanitize_filename with one of the names is about to be made.
SanitizeInit ==
    /\ episodes = {}
    /\ newsletters = {}
    /\ transcripts = {}
    /\ summaries = {}
    /\ clock = 0
    /\ run = IdleRun
    /\ hist = NoHist
    /\ files = [p \in NotePaths |-> NoFile]
    /\ \E name \in SanitizeNames :
          last = [op |-> "call_sanitize_filename", name |-> name]

SanitizeNext == SanitizeFilename

SpecSanitize == SanitizeInit /\ [][SanitizeNext]_vars

(***************************************************************************)
(* Claims about the item store (checked under SpecStore).                  *)
(***************************************************************************)
IsStatusUpdate(l) ==
    l.op \in {"update_episode_status", "update_newsletter_status"}

\* The rows of the table the operation l wrote to that carry l's identity.
TargetRows(l, eps, nls) ==
    IF l.op \in {"update_episode_status", "upsert_episode"}
    THEN EpisodeRows(eps, l.id)
    ELSE NewsletterRows(nls, l.id)

C2_UpsertPreservesLifecycle ==
    [][ (last'.op \in {"upsert_episode", "upsert_newsletter"} /\ last'.existed) =>
            \A r \in TargetRows(last', episodes, newsletters) :
                \E q \in TargetRows(last', episodes', newsletters') :
                    /\ q.status = r.status
                    /\ q.error_reason = r.error_reason
                    /\ q.created_at = r.created_at
                    /\ q.updated_at >= r.updated_at
                    /\ TargetRows(last', episodes', newsletters') = {q} ]_vars

\* C2 witness: a failed episode with an error_reason has been upserted again,
\* later than its creation, with a status argument other than its status.
C2_Witness ==
    /\ last.op = "upsert_episode"
    /\ last.existed
    /\ \E r \in EpisodeRows(episodes, last.id) :
          /\ r.status = "failed"
          /\ r.error_reason # None
          /\ last.status # r.status
          /\ r.created_at < r.updated_at

InAudioRun == run.stage \in {"audio", "audio_done"}
BatchGuids == {run.batch[i].guid : i \in 1..Len(run.batch)}
RaisedIds == {x[1] : x \in hist.raised}

\* C4: when an audio-stage run over a batch returns, every episode of the
\* batch has been attempted; an episode whose download, transcription or
\* transcript persistence raised is failed with the exception's message as
\* error_reason, and every other episode is in the state it reaches when
\* nothing fails: completed, or failed with "No audio URL" without a URL.
C4_FailureIsolated ==
    run.stage = "audio_done" =>
        \A i \in 1..Len(run.batch) :
            \A r \in EpisodeRows(episodes, run.batch[i].guid) :
                /\ r.status # "pending"
                /\ IF r.guid \in RaisedIds
                   THEN r.status = "failed" /\ <<r.guid, r.error_reason>> \in hist.raised
                   ELSE IF Truthy(run.batch[i].audio_url)
                        THEN r.status = "completed" /\ r.error_reason = None
                        ELSE r.status = "failed" /\ r.error_reason = "No audio URL"

\* C4 witness: a run over two episodes has returned; the first one raised and
\* is failed, the second one is completed.
C4_Witness ==
    /\ run.stage = "audio_done"
    /\ Len(run.batch) = 2
    /\ run.batch[1].guid \in RaisedIds
    /\ EpisodeStatus(episodes, run.batch[1].guid) = "failed"
    /\ EpisodeStatus(episodes, run.batch[2].guid) = "completed"

\* C5: an episode selected by an audio-stage run without an audio URL goes
\* from pending straight to failed with error_reason "No audio URL": it is
\* never in_progress, no download or transcription is attempted for it, and
\* no transcript row is created or changed for it.
C5_NoAudioUrlFailsDirectly ==
    [][ run.stage = "audio" =>
          \A i \in 1..Len(run.batch) :
              ~Truthy(run.batch[i].audio_url) =>
                  \A r \in EpisodeRows(episodes, run.batch[i].guid) :
                      \A q \in EpisodeRows(episodes', r.guid) :
                          /\ r.status = IF i < run.idx THEN "failed" ELSE "pending"
                          /\ q.status \in {"pending", "failed"}
                          /\ q.status = "failed" => q.error_reason = "No audio URL"
                          /\ (i = run.idx) => q.status = "failed"
                          /\ TranscriptRows(transcripts', r.guid) =
                                TranscriptRows(transcripts, r.guid)
                          /\ \A c \in hist'.calls : c[1] # r.guid ]_vars

\* C5 witness: the run has just failed an episode without an audio URL, after
\* having downloaded for another episode of the batch.
C5_Witness ==
    /\ last.op = "audio_no_url"
    /\ EpisodeStatus(episodes, last.id) = "failed"
    /\ \E c \in hist.calls : c[1] # last.id /\ c[2] = "download"

\* C6: when an audio-stage run returns, every episode it selected is either
\* completed with a transcript row holding the text the transcriber returned,
\* or failed with a non-null error_reason; an episode is in_progress from
\* before its download until its outcome is written, and is completed only
\* once its transcript row is stored.
C6_AudioRunOutcome ==
    /\ (run.stage = "audio" /\ InBatch
            /\ run.step \in {"download", "transcribe", "persist", "complete"}) =>
          EpisodeStatus(episodes, Current.guid) = "in_progress"
    /\ InAudioRun =>
          \A i \in 1..Len(run.batch) :
              \A r \in EpisodeRows(episodes, run.batch[i].guid) :
                  /\ r.status = "completed" =>
                        \E t \in TranscriptRows(transcripts, r.guid) :
                            /\ <<r.guid, t.transcript_text>> \in hist.heard
                            /\ TranscriptRows(transcripts, r.guid) = {t}
                  /\ run.stage = "audio_done" =>
                        /\ r.status \in {"completed", "failed"}
                        /\ r.status = "failed" => r.error_reason # None

\* C6 witness: a run has returned with one episode completed, its transcript
\* stored, and another failed.
C6_Witness ==
    /\ run.stage = "audio_done"
    /\ \E g \in BatchGuids :
          /\ EpisodeStatus(episodes, g) = "completed"
          /\ \E t \in TranscriptRows(transcripts, g) :
                t.transcript_text = "Transcript text"
    /\ \E g \in BatchGuids : EpisodeStatus(episodes, g) = "failed"

(***************************************************************************)
(* Claims about the eligibility queries (checked under SpecQuery).         *)
(***************************************************************************)
IsEpisodeQuery(l) == l.op = "get_completed_episodes_needing_summary"
IsNewsletterQuery(l) == l.op = "get_completed_newsletters_needing_summary"

\* The identities a query result holds, and the dates in result order.
ResultIds(l) ==
    IF IsEpisodeQuery(l)
    THEN {l.result[i].guid : i \in 1..Len(l.result)}
    ELSE {l.result[i].message_id : i \in 1..Len(l.result)}

ResultDate(l, i) ==
    IF IsEpisodeQuery(l) THEN l.result[i].publish_date ELSE l.result[i].date

\* The completed episodes with a transcript row and no podcast Summary row,
\* and the completed newsletters with no newsletter Summary row.
EligibleEpisodes ==
    { e \in episodes :
        /\ e.status = "completed"
        /\ TranscriptRows(transcripts, e.guid) # {}
        /\ \A u \in SummaryRows(summaries, e.guid) : u.item_type # "podcast" }

EligibleNewsletters ==
    { n \in newsletters :
        /\ n.status = "completed"
        /\ \A u \in SummaryRows(summaries, n.message_id) :
              u.item_type # "newsletter" }

EligibleIds(l) ==
    IF IsEpisodeQuery(l) THEN {e.guid : e \in EligibleEpisodes}
    ELSE {n.message_id : n \in EligibleNewsletters}

EligibleDates(l) ==
    IF IsEpisodeQuery(l) THEN {<<e.guid, e.publish_date>> : e \in EligibleEpisodes}
    ELSE {<<n.message_id, n.date>> : n \in EligibleNewsletters}

SummarizeOver == run.stage \in {"summarize_done", "summarize_raised"}

\* The candidates for which a collaborator (summarizer or rater) raised.
LlmRaisedIds == {x[1] : x \in {y \in hist.raised : y[2] \in LlmErrors}}

\* The candidates for which the summarizer and the rater both returned.
LlmDoneIds ==
    {x[1] : x \in {y \in hist.calls : y[2] = "rater"}} \ LlmRaisedIds

\* The stored status of the item a candidate stands for.
CandidateStatus(c, eps, nls) ==
    IF c.item_type = "podcast" THEN EpisodeStatus(eps, c.id)
    ELSE NewsletterStatus(nls, c.id)

\* C8: of two consecutive summarization runs over a completed episode with a
\* transcript, the first creates exactly one Summary row for it (once the
\* summarizer and the rater have returned for it and the run has moved on),
\* and a run never calls the summarizer or the rater for an episode that
\* already has a Summary row.
C8_SummaryCreatedOnce ==
    /\ run.stage \in {"summarize", "summarize_done", "summarize_raised"} =>
          \A i \in 1..Len(run.batch) :
              (/\ run.batch[i].item_type = "podcast"
               /\ run.batch[i].id \in LlmDoneIds
               /\ (i < run.idx \/ SummarizeOver)) =>
                  Cardinality({u \in summaries :
                                  /\ u.item_id = run.batch[i].id
                                  /\ u.item_type = "podcast"}) = 1
    /\ (run.stage = "summarize" /\ InBatch /\ Current.item_type = "podcast"
            /\ run.step \in {"summarize", "rate", "save"}) =>
          SummaryRows(summaries, Current.id) = {}

\* C9: when a summarization run is over and the summarizer or the rater raised
\* for a candidate, the failure was logged, the candidate has no Summary row
\* and is still completed, every candidate of the batch was processed, and
\* the candidate is returned again by the eligibility query.
C9_SummarizeFailureIsolated ==
    SummarizeOver =>
        \A k \in 1..Len(run.batch) :
            run.batch[k].id \in LlmRaisedIds =>
                /\ run.batch[k].id \in hist.logged
                /\ SummaryRows(summaries, run.batch[k].id) = {}
                /\ CandidateStatus(run.batch[k], episodes, newsletters)
                      = "completed"
                /\ run.idx > Len(run.batch)
                /\ \A s \in get_items_needing_summary(episodes, newsletters,
                                                      summaries, NoLimit) :
                      \E i \in 1..Len(s) : s[i].id = run.batch[k].id

(***************************************************************************)
(* Claims about the note writer (checked under SpecNote).                  *)
(***************************************************************************)
\* A rating line: a line that begins with "rating:" in any letter case; its
\* value is what follows the colon, blanks aside.
IsRatingLine(line) == StartsWith(Lower(line), RatingEmpty)
RatingValue(line) == Strip(SubSeq(line, Len(RatingEmpty) + 1, Len(line)))

\* The file has a rating line with a non-empty value.
HasFilledRating(file) ==
    /\ file.exists
    /\ \E i \in 1..Len(file.lines) :
          IsRatingLine(file.lines[i]) /\ RatingValue(file.lines[i]) # <<>>

\* The file can be read and the first of its rating lines has a non-empty
\* value.
FirstRatingFilled(file) ==
    /\ file.exists
    /\ file.decodes
    /\ \E i \in 1..Len(file.lines) :
          /\ IsRatingLine(file.lines[i])
          /\ RatingValue(file.lines[i]) # <<>>
          /\ \A j \in 1..(i - 1) : ~IsRatingLine(file.lines[j])

\* C10 (as stated): write_note with check_edit=True leaves a file that has a
\* rating line with a non-empty value unchanged and returns False; otherwise
\* (no file, or the rating line empty or absent) it writes content and
\* returns True.
C10_RatedNoteNeverOverwritten ==
    [][ (last'.op = "write_note" /\ last'.check_edit) =>
            IF HasFilledRating(files[last'.path])
            THEN files' = files /\ ~last'.returned
            ELSE /\ files'[last'.path] = WrittenFile(last'.content)
                 /\ last'.returned ]_vars

\* C10 (amended): write_note with check_edit=True leaves a file unchanged and
\* returns False when the file can be read as text and the first of its rating
\* lines has a non-empty value; otherwise (no file, a file that cannot be
\* decoded, no rating line, or a first rating line with an empty value) it
\* writes content and returns True.
C10_FirstRatingLineProtects ==
    [][ (last'.op = "write_note" /\ last'.check_edit) =>
            IF FirstRatingFilled(files[last'.path])
            THEN files' = files /\ ~last'.returned
            ELSE /\ files'[last'.path] = WrittenFile(last'.content)
                 /\ last'.returned ]_vars

\* C10 witness: write_note with check_edit=True has returned False and left a
\* user's note with a filled rating, which differs from the content, as it was.
C10_Witness ==
    /\ last.op = "write_note"
    /\ last.check_edit
    /\ ~last.returned
    /\ FirstRatingFilled(files[last.path])
    /\ files[last.path].lines # last.content

(***************************************************************************)
(* Claims about the manual commands (checked under SpecLifecycle)          *)
(***************************************************************************)

\* C11: in every reachable state an item's error_reason is non-null only if
\* its status is failed (every move into in_progress, completed, pending or
\* skipped clears it), for episodes and for newsletters.
C11_ReasonOnlyWhenFailed ==
    /\ \A r \in episodes : r.error_reason # None => r.status = "failed"
    /\ \A r \in newsletters : r.error_reason # None => r.status = "failed"

\* C12: once an item's status is completed no step changes it: discovery,
\* the three stage runs, retry and skip all leave it completed.
C12_CompletedIsFinal ==
    [][ /\ \A r \in episodes : r.status = "completed"
              => EpisodeStatus(episodes', r.guid) = "completed"
        /\ \A r \in newsletters : r.status = "completed"
              => NewsletterStatus(newsletters', r.message_id) = "completed"
      ]_vars

\* The step is the retry command given the id.
RetryOf(item_id) == last'.op = "retry" /\ last'.id = item_id

\* Every result the pending query can return for the limit holds the item.
EpisodeSelected(eps, guid, limit) ==
    \A b \in get_pending_episodes(eps, limit) :
        \E i \in DOMAIN b : b[i].guid = guid

NewsletterSelected(nls, message_id, limit) ==
    \A b \in get_pending_newsletters(nls, limit) :
        \E i \in DOMAIN b : b[i].message_id = message_id

\* A positive limit is used up by other pending items that are at least as
\* recent as the item.
EpisodeCrowdedOut(eps, guid, limit) ==
    /\ TruthyLimit(limit)
    /\ Cardinality({r \in eps : /\ r.status = "pending" /\ r.guid # guid
                                /\ \A q \in EpisodeRows(eps, guid) :
                                       r.publish_date >= q.publish_date})
          >= limit

NewsletterCrowdedOut(nls, message_id, limit) ==
    /\ TruthyLimit(limit)
    /\ Cardinality({r \in nls : /\ r.status = "pending"
                                /\ r.message_id # message_id
                                /\ \A q \in NewsletterRows(nls, message_id) :
                                       r.date >= q.date})
          >= limit

\* The rows of the id are pending with no reason.
EpisodeIsReset(eps, guid) ==
    \A q \in EpisodeRows(eps, guid) :
        q.status = "pending" /\ q.error_reason = None

NewsletterIsReset(nls, message_id) ==
    \A q \in NewsletterRows(nls, message_id) :
        q.status = "pending" /\ q.error_reason = None

\* The id matches no episode and no newsletter.
NoItemHas(item_id) ==
    EpisodeRows(episodes, item_id) = {} /\ NewsletterRows(newsletters, item_id) = {}

\* C13 as stated: retry on the id of a failed item makes it pending with a
\* null error_reason and the next audio-stage (episode) or newsletter-stage
\* (newsletter) run, whatever its limit, selects it; retry on an id no item
\* has modifies no row.
C13_RetryReselects ==
    [][ \A id \in CommandIds : RetryOf(id) =>
          /\ EpisodeStatus(episodes, id) = "failed" =>
                /\ EpisodeIsReset(episodes', id)
                /\ \A n \in LifeLimits : EpisodeSelected(episodes', id, n)
          /\ NewsletterStatus(newsletters, id) = "failed" =>
                /\ NewsletterIsReset(newsletters', id)
                /\ \A n \in LifeLimits : NewsletterSelected(newsletters', id, n)
          /\ NoItemHas(id) =>
                episodes' = episodes /\ newsletters' = newsletters
      ]_vars

\* C13 amended: retry on the guid of a failed episode, or on the message_id
\* of a failed newsletter that is not also an episode's guid, makes it
\* pending with a null error_reason; the next run of its stage selects it
\* when run without a limit, and with a positive limit unless that many
\* other pending items at least as recent exist; a newsletter whose
\* message_id is also an episode's guid is left as it is; retry on an id no
\* item has modifies no row.
C13_RetryMakesPending ==
    [][ \A id \in CommandIds : RetryOf(id) =>
          /\ EpisodeStatus(episodes, id) = "failed" =>
                /\ EpisodeIsReset(episodes', id)
                /\ \A n \in LifeLimits :
                      \/ EpisodeSelected(episodes', id, n)
                      \/ EpisodeCrowdedOut(episodes', id, n)
          /\ NewsletterStatus(newsletters, id) = "failed"
               /\ EpisodeRows(episodes, id) = {} =>
                /\ NewsletterIsReset(newsletters', id)
                /\ \A n \in LifeLimits :
                      \/ NewsletterSelected(newsletters', id, n)
                      \/ NewsletterCrowdedOut(newsletters', id, n)
          /\ EpisodeRows(episodes, id) # {} => newsletters' = newsletters
          /\ NoItemHas(id) =>
                episodes' = episodes /\ newsletters' = newsletters
      ]_vars

\* Retry has just reset a failed episode that had a recorded reason, and a
\* run limited to one item would not pick it: a more recent one is pending.
C13_Witness ==
    /\ last.op = "retry" /\ last.from = "failed"
    /\ EpisodeStatus(episodes, last.id) = "pending"
    /\ EpisodeIsReset(episodes, last.id)
    /\ EpisodeSelected(episodes, last.id, NoLimit)
    /\ ~EpisodeSelected(episodes, last.id, 1)

\* C14: a skipped item stays skipped under every step but a retry of its id,
\* and no audio, newsletter or summarization run selects a skipped item.
C14_SkipIsPermanent ==
    [][ /\ \A r \in episodes : r.status = "skipped" /\ ~RetryOf(r.guid)
              => EpisodeStatus(episodes', r.guid) = "skipped"
        /\ \A r \in newsletters : r.status = "skipped" /\ ~RetryOf(r.message_id)
              => NewsletterStatus(newsletters', r.message_id) = "skipped"
        /\ last'.op = "audio_start" =>
              \A i \in DOMAIN run'.batch :
                  EpisodeStatus(episodes, run'.batch[i].guid) # "skipped"
        /\ last'.op = "newsletter_start" =>
              \A i \in DOMAIN run'.batch :
                  NewsletterStatus(newsletters, run'.batch[i].message_id)
                      # "skipped"
        /\ last'.op = "summarize_start" =>
              \A i \in DOMAIN run'.batch :
                  CandidateStatus(run'.batch[i], episodes, newsletters)
                      # "skipped"
      ]_vars

(***************************************************************************)
(* Claims about the summaries table (checked under SpecQuery)              *)
(***************************************************************************)

\* C15: save_summary for an item whose status is not completed (or that has
\* no row) fails and stores or changes no Summary row.
C15_SaveRequiresCompleted ==
    [][ last'.op = "save_summary"
          /\ CandidateStatus(last', episodes, newsletters) # "completed"
        => summaries' = summaries ]_vars

\* The Summary rows stored for the item id with the kind.
SummariesOf(rows, item_id, item_type) ==
    {r \in rows : r.item_id = item_id /\ r.item_type = item_type}

\* C16: after save_summary(item_id, item_type, payload) there is exactly one
\* Summary row for that id with that kind, it holds the payload just saved,
\* and the rows of every other (id, kind) pair, the episode's Summary under
\* a message_id equal to its guid among them, are as they were.
C16_OneSummaryPerIdAndKind ==
    [][ last'.op = "save_summary" =>
          /\ Cardinality(SummariesOf(summaries', last'.id, last'.item_type)) = 1
          /\ \A r \in SummariesOf(summaries', last'.id, last'.item_type) :
                r.summary = last'.summary
          /\ \A r \in summaries :
                r \notin SummariesOf(summaries, last'.id, last'.item_type)
                   => r \in summaries'
      ]_vars

(***************************************************************************)
(* Claims about the kinds and the frame of the summarization stage         *)
(* (checked under SpecPipeline)                                            *)
(***************************************************************************)

\* A summarization run is under way or has just ended.
InSummarizeRun ==
    run.stage \in {"summarize", "summarize_done", "summarize_raised"}

\* The candidates of the run's batch of the kind.
BatchOfKind(item_type) ==
    {run.batch[i] : i \in {j \in DOMAIN run.batch :
                             run.batch[j].item_type = item_type}}

\* A collaborator was called for the candidate in this run.
CalledFor(c) == \E x \in hist.calls : x[1] = c.id

EpisodeLifecycle(eps) ==
    {[id |-> r.guid, status |-> r.status, error_reason |-> r.error_reason] :
       r \in eps}

NewsletterLifecycle(nls) ==
    {[id |-> r.message_id, status |-> r.status,
      error_reason |-> r.error_reason] : r \in nls}

NoText(trs, guid) ==
    \A t \in TranscriptRows(trs, guid) : t.transcript_text = ""

\* The run is at an episode candidate without a transcript text.
AtEpisodeWithoutText ==
    /\ run.stage = "summarize" /\ InBatch /\ run.step = "check"
    /\ Current.item_type = "podcast"
    /\ NoText(transcripts, Current.id)

\* The candidates of the batch that are episodes without a transcript text.
BatchWithoutText ==
    {c \in BatchOfKind("podcast") : NoText(transcripts, c.id)}

\* Every result the candidate query can return for the limit holds c's item.
CandidateSelected(c, limit) ==
    \A b \in get_items_needing_summary(episodes, newsletters, summaries, limit) :
        \E j \in DOMAIN b : b[j].id = c.id /\ b[j].item_type = c.item_type

\* A positive limit is used up by other eligible items at least as recent.
CandidateCrowdedOut(c, limit) ==
    /\ TruthyLimit(limit)
    /\ Cardinality({x \in ItemsNeedingSummary(episodes, newsletters, summaries) :
                      /\ ~(x.id = c.id /\ x.item_type = c.item_type)
                      /\ x.date >= c.date}) >= limit

\* The run passes over the episode without a call: the step taken at it is
\* the skip, which moves to the next candidate and writes nothing.
SkippedWithoutCall ==
    AtEpisodeWithoutText /\ run' # run =>
        /\ last'.op = "summarize_skip_no_transcript"
        /\ run'.idx = run.idx + 1
        /\ hist'.calls = hist.calls
        /\ summaries' = summaries
        /\ EpisodeStatus(episodes', Current.id) = "completed"

\* No collaborator is called and no Summary is stored for such an episode.
NoCallNoSummary ==
    InSummarizeRun =>
        \A c \in BatchWithoutText :
            /\ ~CalledFor(c)
            /\ SummaryRows(summaries, c.id) = {}
            /\ EpisodeStatus(episodes, c.id) = "completed"

ForbiddenChars == {"/", "\\", ":", "*", "?", "\"", "<", ">", "|"}

\* C20: for every input, longer than the bound or not, the output of
\* sanitize_filename is determined by the input, holds none of the
\* characters / \ : * ? " < > |, neither begins nor ends with whitespace,
\* has no two whitespace characters in a row, and is at most 180 long.
C20_SanitizedNameIsClean ==
    last.op = "sanitize_filename" =>
        LET out == last.result
        IN /\ out = sanitize_filename(last.name)
           /\ \A i \in DOMAIN out : out[i] \notin ForbiddenChars
           /\ out # <<>> => /\ out[1] \notin WhitespaceChars
                            /\ out[Len(out)] \notin WhitespaceChars
           /\ \A i \in 1..(Len(out) - 1) :
                 ~(out[i] \in WhitespaceChars /\ out[i + 1] \in WhitespaceChars)
           /\ Len(out) <= MaxFilenameLen

(***************************************************************************)
(* C25: get_pending_episodes / get_pending_newsletters return only pending *)
(* items, by date descending, at most n of them when a limit n >= 0 is     *)
(* given and all of them when no limit is given.  Stated of the batch a    *)
(* stage run has just selected with the limit it was started with.         *)
(***************************************************************************)
JustSelected == last.op \in {"audio_start", "newsletter_start"}

PendingAtStart ==
    IF last.op = "audio_start"
    THEN {r \in episodes : r.status = "pending"}
    ELSE {r \in newsletters : r.status = "pending"}

DateAtStart(r) == IF last.op = "audio_start" THEN r.publish_date ELSE r.date

\* C25: the selected batch is pending, date-descending and capped at the limit.
C25_PendingCappedAtLimit ==
    JustSelected =>
        /\ \A i \in 1..Len(run.batch) : run.batch[i] \in PendingAtStart
        /\ \A i, j \in 1..Len(run.batch) :
              i < j => DateAtStart(run.batch[i]) >= DateAtStart(run.batch[j])
        /\ last.limit # NoLimit => Len(run.batch) <= last.limit
        /\ last.limit = NoLimit => Len(run.batch) = Cardinality(PendingAtStart)

(***************************************************************************)
(* Rediscovery: upserts of one episode and one newsletter whose feed or    *)
(* mailbox entry changes between discovery runs.                           *)
(***************************************************************************)
ChangedAuthors == {"Host", "New Host"}
ChangedSenders == {"sender@example.com", "other@example.com"}
ChangedDates == {9, 10}
ChangedFeedUrls == {"https://feed", "https://feed/v2"}

UpsertInit == StoreInit

UpsertNext ==
    \/ Tick
    \/ \E g \in EpisodeGuids, f \in ChangedFeedUrls, t \in Titles,
          d \in ChangedDates, a \in ChangedAuthors, au \in AudioUrls,
          v \in VideoUrls :
          UpsertEpisode(g, f, t, d, a, au, v, "pending")
    \/ \E m \in MessageIds, su \in Titles, se \in ChangedSenders,
          d \in ChangedDates, h \in Bodies, b \in Bodies, l \in Links :
          UpsertNewsletter(m, su, se, d, h, b, l, "pending")

SpecUpsert == UpsertInit /\ [][UpsertNext]_vars

(***************************************************************************)
(* C27: after upsert_episode / upsert_newsletter on an identity that       *)
(* already exists, every stored descriptive field of the item equals the   *)
(* value supplied in that call: title/subject, author/sender, date, and    *)
(* the source links or bodies.                                             *)
(***************************************************************************)
EpisodeHolds(rows, g, f, t, d, a, au, v) ==
    \A r \in EpisodeRows(rows, g) :
        /\ r.feed_url = f /\ r.title = t /\ r.publish_date = d
        /\ r.author = a /\ r.audio_url = au /\ r.video_url = v

NewsletterHolds(rows, m, su, se, d, h, b, l) ==
    \A r \in NewsletterRows(rows, m) :
        /\ r.subject = su /\ r.sender = se /\ r.date = d
        /\ r.body_html = h /\ r.body_text = b /\ r.link = l

EpisodeUpsertStoresAll ==
    \A g \in EpisodeGuids, f \in ChangedFeedUrls, t \in Titles,
       d \in ChangedDates, a \in ChangedAuthors, au \in AudioUrls,
       v \in VideoUrls :
       (EpisodeRows(episodes, g) # {}
          /\ UpsertEpisode(g, f, t, d, a, au, v, "pending"))
       => EpisodeHolds(episodes', g, f, t, d, a, au, v)

NewsletterUpsertStoresAll ==
    \A m \in MessageIds, su \in Titles, se \in ChangedSenders,
       d \in ChangedDates, h \in Bodies, b \in Bodies, l \in Links :
       (NewsletterRows(newsletters, m) # {}
          /\ UpsertNewsletter(m, su, se, d, h, b, l, "pending"))
       => NewsletterHolds(newsletters', m, su, se, d, h, b, l)

\* C27: an upsert on an existing identity stores every supplied descriptive field.
C27_UpsertStoresEveryDescriptiveField ==
    [][EpisodeUpsertStoresAll /\ NewsletterUpsertStoresAll]_vars

(***************************************************************************)
(* C26: there is at most one transcript row per episode; after a           *)
(* save_transcript call the row of that episode holds the text and the     *)
(* path of that call (last write wins); and no step of the pipeline or of  *)
(* the lifecycle commands removes the transcript row of an episode.        *)
(***************************************************************************)
OneTranscriptPerEpisode ==
    \A r1, r2 \in transcripts : r1.episode_guid = r2.episode_guid => r1 = r2

JustPersisted == last.op = "audio_persist"

LatestTranscriptHeld ==
    JustPersisted =>
        \E r \in transcripts :
            /\ r.episode_guid = last.id
            /\ r.transcript_text = run.text
            /\ r.transcript_path = TranscriptPath(last.id)

NoTranscriptDeleted ==
    \A r \in transcripts : TranscriptRows(transcripts', r.episode_guid) # {}

\* C26: one transcript row per episode, the last write wins, none is deleted.
C26_TranscriptLastWriteWins ==
    [][OneTranscriptPerEpisode' /\ LatestTranscriptHeld' /\ NoTranscriptDeleted]_vars

\* An episode that was summarized from an earlier transcript has just been
\* transcribed again, to an empty text, which replaced the earlier one.
C26_Witness ==
    /\ JustPersisted
    /\ run.text = ""
    /\ SummaryRows(summaries, last.id) # {}
    /\ Cardinality(TranscriptRows(transcripts, last.id)) = 1

(***************************************************************************)
(* The newsletter stage on its own: newsletters with every combination of  *)
(* absent, blank and filled plain-text and HTML bodies are discovered and  *)
(* process-newsletters runs over them.                                     *)
(***************************************************************************)
TextBodies == {None, "  ", " Hi  there "}
HtmlBodies == {None, "<p>Yo</p>"}
NewsletterLimits == {NoLimit, 1}
StageMessageIds == {"msg-1", "msg-2"}

DiscoverNewsletterWith(message_id, body_html, body_text) ==
    /\ Idle
    /\ UpsertNewsletter(message_id, "Episode", "sender@example.com", 9,
                        body_html, body_text, None, "pending")

NewsletterStageInit == StoreInit

NewsletterStageNext ==
    \/ \E m \in StageMessageIds, h \in HtmlBodies, b \in TextBodies :
          DiscoverNewsletterWith(m, h, b)
    \/ \E n \in NewsletterLimits : NewsletterStart(n)
    \/ NewsletterClaim
    \/ NewsletterComplete
    \/ \E m \in ParseErrors : NewsletterRaise(m)
    \/ NewsletterFinish
    \/ Return

SpecNewsletter == NewsletterStageInit /\ [][NewsletterStageNext]_vars

(***************************************************************************)
(* C29: a newsletter selected by a newsletter-stage run is set to          *)
(* in_progress; its parsed text comes from body_text whenever body_text is *)
(* non-blank and from body_html only otherwise; it ends completed when     *)
(* parsing and persistence succeed, and failed with the exception's        *)
(* message when a step raises, after which the rest of the batch is still  *)
(* processed: when the run is over every selected newsletter is completed  *)
(* or failed.                                                              *)
(***************************************************************************)
StoredNewsletter(message_id) ==
    CHOOSE n \in newsletters : n.message_id = message_id

InNewsletterRun == run.stage \in {"newsletter", "newsletter_done"}

ClaimedInProgress ==
    last.op = "newsletter_claim" =>
        StoredNewsletter(last.id).status = "in_progress"

ParsedFromTextFirst ==
    last.op = "newsletter_complete" =>
        LET n == StoredNewsletter(last.id)
        IN /\ n.status = "completed" /\ n.error_reason = None
           /\ NonBlank(n.body_text) =>
                 last.parsed = clean_text(BodyChars[n.body_text])
           /\ (~NonBlank(n.body_text) /\ NonBlank(n.body_html)) =>
                 last.parsed = html_to_text(BodyChars[n.body_html])
           /\ (~NonBlank(n.body_text) /\ ~NonBlank(n.body_html)) =>
                 last.parsed = <<>>

RaisedIsFailed ==
    last.op = "newsletter_raise" =>
        /\ StoredNewsletter(last.id).status = "failed"
        /\ <<last.id, StoredNewsletter(last.id).error_reason>> \in hist.raised

HandledSoFar ==
    InNewsletterRun =>
        \A i \in 1..Len(run.batch) :
            LET n == StoredNewsletter(run.batch[i].message_id)
            IN /\ i < run.idx =>
                    \/ n.status = "completed"
                    \/ /\ n.status = "failed"
                       /\ <<n.message_id, n.error_reason>> \in hist.raised
               /\ (i = run.idx /\ run.step = "parse") => n.status = "in_progress"
               /\ (i > run.idx \/ (i = run.idx /\ run.step = "check")) =>
                    n.status = "pending"

\* C29: claimed in_progress, parsed from body_text first, completed or failed
\* with the message, and the batch goes on.
C29_NewsletterStageParsesAndIsolates ==
    /\ ClaimedInProgress
    /\ ParsedFromTextFirst
    /\ RaisedIsFailed
    /\ HandledSoFar

\* Both bodies are filled and the plain text was taken, after an earlier
\* newsletter of the same batch had failed.
C29_Witness ==
    /\ last.op = "newsletter_complete"
    /\ NonBlank(StoredNewsletter(last.id).body_text)
    /\ NonBlank(StoredNewsletter(last.id).body_html)
    /\ last.parsed = <<"H", "i", " ", "t", "h", "e", "r", "e">>
    /\ \E i \in 1..Len(run.batch) :
          StoredNewsletter(run.batch[i].message_id).status = "failed"

\* Only the HTML body has text and the parsed text was taken from it.
C29_WitnessHtml ==
    /\ last.op = "newsletter_complete"
    /\ ~NonBlank(StoredNewsletter(last.id).body_text)
    /\ last.parsed = <<"Y", "o">>

(***************************************************************************)
(* A stage run that is killed.  The loops of process_pending and of        *)
(* process-newsletters catch Exception only and have no cleanup: when the  *)
(* process ends inside the loop (a signal, KeyboardInterrupt, power loss)  *)
(* the command is over and the store stays as the last commit left it.     *)
(***************************************************************************)
Crash ==
    /\ run.stage \in {"audio", "newsletter"}
    /\ run' = IdleRun
    /\ hist' = NoHist
    /\ last' = [op |-> "crash"]
    /\ UNCHANGED <<episodes, newsletters, transcripts, summaries, clock, files>>

CrashInit == StoreInit

CrashNext ==
    \/ \E g \in PipeGuids, d \in PipeDates : DiscoverEpisode(g, d, "https://audio")
    \/ \E m \in PipeMessageIds : DiscoverNewsletter(m)
    \/ \E n \in LifeLimits : AudioStart(n)
    \/ AudioClaim
    \/ AudioDownloadOk
    \/ \E t \in Texts : AudioTranscribeOk(t)
    \/ AudioPersistOk
    \/ AudioComplete
    \/ \E m \in DownloadErrors : AudioRaise("download", m)
    \/ AudioFinish
    \/ \E n \in LifeLimits : NewsletterStart(n)
    \/ NewsletterClaim
    \/ NewsletterComplete
    \/ \E m \in ParseErrors : NewsletterRaise(m)
    \/ NewsletterFinish
    \/ Return
    \/ Crash

SpecCrash == CrashInit /\ [][CrashNext]_vars

(***************************************************************************)
(* C28: an item left in_progress by a crashed stage run is re-claimed by   *)
(* the next run: an audio (newsletter) stage run started without a limit   *)
(* has every in_progress episode (newsletter) in the batch it selected.    *)
(***************************************************************************)
BatchHasEpisode(guid) == \E i \in 1..Len(run.batch) : run.batch[i].guid = guid

BatchHasNewsletter(message_id) ==
    \E i \in 1..Len(run.batch) : run.batch[i].message_id = message_id

\* C28: the next stage run has every in_progress item in its batch.
C28_StuckItemIsReclaimed ==
    /\ (last.op = "audio_start" /\ last.limit = NoLimit) =>
          \A e \in episodes : e.status = "in_progress" => BatchHasEpisode(e.guid)
    /\ (last.op = "newsletter_start" /\ last.limit = NoLimit) =>
          \A n \in newsletters :
              n.status = "in_progress" => BatchHasNewsletter(n.message_id)

(***************************************************************************)
(* retry_with_backoff of utils/retry.py around download_audio, with the    *)
(* defaults of Config.load.  The calls the wrapper has seen fail and the   *)
(* waits it has slept for the current download are kept in "last".         *)
(***************************************************************************)
MaxRetriesAudio == 3
BackoffBase == 60

\* Variant: max_retries counts the attempts, the first call included.
AttemptsAllowedInTotal(max_retries) == max_retries

\* for attempt in range(max_retries_val + 1).
AttemptsAllowed(max_retries) == max_retries + 1

\* wait_time = backoff_base_val * (2**attempt), attempt counted from 0.
wait_time(backoff_base, attempt) == backoff_base * 2^attempt

AtDownload == run.stage = "audio" /\ InBatch /\ run.step = "download"

\* The attempts of the current download that have raised, and the waits.
FailedAttempts == IF last.op = "download_retry" THEN last.attempt ELSE 0
Waits == IF last.op = "download_retry" THEN last.waits ELSE <<>>

\* func raises and attempt # max_retries_val: time.sleep(wait_time), then the
\* loop calls func again.
DownloadRetry ==
    /\ AtDownload
    /\ FailedAttempts + 1 < AttemptsAllowed(MaxRetriesAudio)
    /\ last' = [op |-> "download_retry", id |-> Current.guid,
                attempt |-> FailedAttempts + 1,
                waits |-> Append(Waits, wait_time(BackoffBase, FailedAttempts))]
    /\ UNCHANGED <<episodes, newsletters, transcripts, summaries, clock, run,
                   hist, files>>

\* func raises and attempt == max_retries_val: raise; process_pending catches
\* the exception and marks the episode failed with str(exc).
DownloadExhausted(msg) ==
    /\ AtDownload
    /\ FailedAttempts + 1 = AttemptsAllowed(MaxRetriesAudio)
    /\ episodes' = mark_failed(episodes, Current.guid, msg, clock)
    /\ run' = AfterFailure(run)
    /\ hist' = [hist EXCEPT !.raised = @ \cup {<<Current.guid, msg>>},
                            !.calls = @ \cup {<<Current.guid, "download">>}]
    /\ last' = [op |-> "audio_raise", id |-> Current.guid, at |-> "download",
                attempts |-> FailedAttempts + 1, waits |-> Waits]
    /\ UNCHANGED <<newsletters, transcripts, summaries, clock, files>>

RetryInit == StoreInit

RetryNext ==
    \/ \E g \in PipeGuids, d \in PipeDates : DiscoverEpisode(g, d, "https://audio")
    \/ \E n \in LifeLimits : AudioStart(n)
    \/ AudioClaim
    \/ DownloadRetry
    \/ \E m \in DownloadErrors : DownloadExhausted(m)
    \/ AudioDownloadOk
    \/ \E t \in Texts : AudioTranscribeOk(t)
    \/ AudioPersistOk
    \/ AudioComplete
    \/ AudioFinish
    \/ Return

SpecRetry == RetryInit /\ [][RetryNext]_vars

(***************************************************************************)
(* C24: with max retries 3 and base b, a download that raises on every     *)
(* call is attempted 3 times in total with waits b and 2b, then the        *)
(* exception reaches the audio stage and the episode is marked failed; a   *)
(* download that has succeeded is not called again and not waited for.     *)
(* Amended: it is attempted 4 times in total, the first call and 3         *)
(* retries, with waits b, 2b and 4b.                                       *)
(***************************************************************************)
DownloadGaveUp == last.op = "audio_raise" /\ last.at = "download"

EpisodeFailedWith(guid, reasons) ==
    \A e \in EpisodeRows(episodes, guid) :
        e.status = "failed" /\ e.error_reason \in reasons

\* A wait follows a failed attempt of a download that has not returned: the
\* step before it is the claim of the episode or an earlier wait for it.
WaitOnlyWhileFailing ==
    last'.op = "download_retry" =>
        /\ AtDownload /\ last'.id = Current.guid
        /\ last.op \in {"audio_claim", "download_retry"}
        /\ last'.waits = Append(Waits, BackoffBase * 2^Len(Waits))

\* Once the download has returned, the run is past it.
NoCallAfterSuccess == last'.op = "audio_download" => ~AtDownload'

GaveUpAfter(attempts, waits) ==
    DownloadGaveUp =>
        /\ last.attempts = attempts
        /\ last.waits = waits
        /\ EpisodeFailedWith(last.id, DownloadErrors)

\* C24 as stated: the download gives up after 3 attempts and waits b, 2b.
C24_ThreeAttempts ==
    [][/\ GaveUpAfter(3, <<BackoffBase, 2 * BackoffBase>>)'
       /\ WaitOnlyWhileFailing
       /\ NoCallAfterSuccess]_vars

\* C24 amended: the download gives up after 4 attempts and waits b, 2b, 4b.
C24_FourAttempts ==
    [][/\ GaveUpAfter(4, <<BackoffBase, 2 * BackoffBase, 4 * BackoffBase>>)'
       /\ WaitOnlyWhileFailing
       /\ NoCallAfterSuccess]_vars

\* A download has failed four times, after waits of 60, 120 and 240 seconds,
\* and its episode is failed with the message of the exception.
C24_Witness ==
    /\ DownloadGaveUp
    /\ last.attempts = 4
    /\ last.waits = <<60, 120, 240>>
    /\ EpisodeFailedWith(last.id, DownloadErrors)
    /\ EpisodeRows(episodes, last.id) # {}

\* A download returned on its third call, after two waits.
C24_WitnessSuccess ==
    /\ last.op = "download_retry" /\ last.attempt = 2
    /\ ENABLED AudioDownloadOk

(***************************************************************************)
(* _extract_highlights and _collect_highlights of cli/digests.py.  A       *)
(* stored structured_summary is a string or NULL; json_loads gives what    *)
(* json.loads makes of each string the model uses.  Titles and texts are   *)
(* sequences of characters.                                                *)
(***************************************************************************)
HighlightLimit == 5

SummaryAI == "{key_topics: [AI: Big], takeaways: [Try]}"
SummaryAiAgain == "{key_topics: [ai: Same, IT: New, RN: , GT: Far], takeaways: [Try, Go,  , try]}"

StoredStructuredSummaries ==
    {None, "", "{bad json}", "null", "[1]", "5", "{}", SummaryAI, SummaryAiAgain}

JsonObject(key_topics, takeaways) ==
    [error |-> FALSE, type |-> "object", key_topics |-> key_topics,
     takeaways |-> takeaways]

JsonOther(type) ==
    [error |-> FALSE, type |-> type, key_topics |-> <<>>, takeaways |-> <<>>]

\* json.loads(text): JSONDecodeError, or the value the text denotes.
json_loads(text) ==
    CASE text = "null" -> JsonOther("null")
      [] text = "[1]" -> JsonOther("array")
      [] text = "5" -> JsonOther("number")
      [] text = "{}" -> JsonObject(<<>>, <<>>)
      [] text = SummaryAI ->
           JsonObject(<<[topic |-> <<"A", "I">>, summary |-> <<"B", "i", "g">>]>>,
                      <<[text |-> <<"T", "r", "y">>]>>)
      [] text = SummaryAiAgain ->
           JsonObject(<<[topic |-> <<"a", "i">>, summary |-> <<"S", "a", "m", "e">>],
                        [topic |-> <<"I", "T">>, summary |-> <<" ", "N", "e", "w">>],
                        [topic |-> <<"R", "N">>, summary |-> <<" ">>],
                        [topic |-> <<"G", "T">>, summary |-> <<"F", "a", "r">>]>>,
                      <<[text |-> <<"T", "r", "y">>], [text |-> <<"G", "o", " ">>],
                        [text |-> <<" ">>], [text |-> <<"t", "r", "y">>]>>)
      [] OTHER -> [error |-> TRUE, type |-> "none", key_topics |-> <<>>,
                   takeaways |-> <<>>]

Highlights(raised, topics, actionables) ==
    [raised |-> raised, topics |-> topics, actionables |-> actionables]

\* The (title, summary) pairs with both parts non-empty after .strip().
TopicsOf(key_topics) ==
    LET pair(t) == <<Strip(t.topic), Strip(t.summary)>>
        kept(t) == Strip(t.topic) # <<>> /\ Strip(t.summary) # <<>>
        sel == SelectSeq(key_topics, kept)
    IN [i \in 1..Len(sel) |-> pair(sel[i])]

\* The texts of the takeaways that are non-empty after .strip().
ActionablesOf(takeaways) ==
    LET kept(t) == Strip(t.text) # <<>>
        sel == SelectSeq(takeaways, kept)
    IN [i \in 1..Len(sel) |-> Strip(sel[i].text)]

\* Variant: a decoded value that is not an object gives no highlights.
extract_highlights_objects_only(structured_summary) ==
    IF ~Truthy(structured_summary) THEN Highlights(None, <<>>, <<>>)
    ELSE LET data == json_loads(structured_summary)
         IN IF data.error \/ data.type # "object"
            THEN Highlights(None, <<>>, <<>>)
            ELSE Highlights(None, TopicsOf(data.key_topics),
                            ActionablesOf(data.takeaways))

\* _extract_highlights: only json.JSONDecodeError is caught; data.get(...) on
\* a decoded value that is no dict raises AttributeError.
extract_highlights(structured_summary) ==
    IF ~Truthy(structured_summary) THEN Highlights(None, <<>>, <<>>)
    ELSE LET data == json_loads(structured_summary)
         IN IF data.error THEN Highlights(None, <<>>, <<>>)
            ELSE IF data.type # "object"
            THEN Highlights("AttributeError", <<>>, <<>>)
            ELSE Highlights(None, TopicsOf(data.key_topics),
                            ActionablesOf(data.takeaways))

\* Variant: every item is appended, with neither the limit nor the seen set.
AddThemesAll(themes, items, limit) == themes \o items

\* The loop over topic_items: a title is added unless the limit is reached
\* or its lower-cased form was seen.
RECURSIVE AddThemes(_, _, _)
AddThemes(themes, items, limit) ==
    IF items = <<>> \/ Len(themes) >= limit THEN themes
    ELSE IF \E i \in 1..Len(themes) : Lower(themes[i][1]) = Lower(Head(items)[1])
         THEN AddThemes(themes, Tail(items), limit)
         ELSE AddThemes(Append(themes, Head(items)), Tail(items), limit)

\* The loop over actionable_items.
RECURSIVE AddActionables(_, _, _)
AddActionables(actionables, items, limit) ==
    IF items = <<>> \/ Len(actionables) >= limit THEN actionables
    ELSE IF \E i \in 1..Len(actionables) : Lower(actionables[i]) = Lower(Head(items))
         THEN AddActionables(actionables, Tail(items), limit)
         ELSE AddActionables(Append(actionables, Head(items)), Tail(items), limit)

\* _collect_highlights over the structured summaries a digest query returned.
StartCollect(structured_summaries, limit) ==
    [op |-> "collect_highlights", summaries |-> structured_summaries,
     limit |-> limit, idx |-> 1, themes |-> <<>>, actionables |-> <<>>,
     raised |-> None]

Collecting ==
    /\ last.op = "collect_highlights" /\ last.raised = None
    /\ last.idx <= Len(last.summaries)

\* One turn of the loop of _collect_highlights; an exception of
\* _extract_highlights is not caught and ends the digest command.
CollectStep ==
    /\ Collecting
    /\ LET r == extract_highlights(last.summaries[last.idx])
           themes == AddThemes(last.themes, r.topics, last.limit)
           actionables == AddActionables(last.actionables, r.actionables,
                                         last.limit)
       IN last' = IF r.raised # None
                  THEN [last EXCEPT !.raised = r.raised]
                  ELSE [last EXCEPT
                          !.themes = themes, !.actionables = actionables,
                          !.idx = IF Len(themes) >= last.limit
                                     /\ Len(actionables) >= last.limit
                                  THEN Len(last.summaries) + 1
                                  ELSE last.idx + 1]
    /\ UNCHANGED <<episodes, newsletters, transcripts, summaries, clock, run,
                   hist, files>>

\* limit: int = 5, and the smaller limits a caller may pass.
CollectLimits == {1, 2, HighlightLimit}

HighlightInputs ==
    { <<a, b>> : a \in StoredStructuredSummaries, b \in StoredStructuredSummaries }

HighlightInit ==
    /\ episodes = {} /\ newsletters = {} /\ transcripts = {} /\ summaries = {}
    /\ clock = 0 /\ run = IdleRun /\ hist = NoHist
    /\ files = [p \in NotePaths |-> NoFile]
    /\ last \in { StartCollect(s, n) : s \in HighlightInputs, n \in CollectLimits }

HighlightNext == CollectStep

SpecHighlights == HighlightInit /\ [][HighlightNext]_vars

(***************************************************************************)
(* C23: for a stored structured_summary that is no well-formed JSON object *)
(* (NULL, empty, invalid JSON, or valid JSON that is not an object)        *)
(* _extract_highlights returns no topics and no actionables without        *)
(* raising, so the digest's collection completes and holds the highlights  *)
(* of the other items.                                                     *)
(***************************************************************************)
IsJsonObject(structured_summary) ==
    /\ Truthy(structured_summary)
    /\ ~json_loads(structured_summary).error
    /\ json_loads(structured_summary).type = "object"

CollectionOver == last.op = "collect_highlights" /\ ~Collecting

\* What the well-formed items of the list contribute, in order.
RECURSIVE ThemesOfObjects(_, _, _)
ThemesOfObjects(themes, structured_summaries, limit) ==
    IF structured_summaries = <<>> THEN themes
    ELSE ThemesOfObjects(
           IF IsJsonObject(Head(structured_summaries))
           THEN AddThemes(themes,
                          TopicsOf(json_loads(Head(structured_summaries)).key_topics),
                          limit)
           ELSE themes,
           Tail(structured_summaries), limit)

\* C23: no stored value makes the collection raise, and a finished collection
\* holds the themes of the well-formed items.
C23_MalformedSummaryGivesNoHighlights ==
    last.op = "collect_highlights" =>
        /\ last.raised = None
        /\ CollectionOver => last.themes = ThemesOfObjects(<<>>, last.summaries, last.limit)

(***************************************************************************)
(* The export command (cli/export.py) and the digest commands              *)
(* (cli/digests.py).  A path is the sequence of its characters, its        *)
(* directory being one element; NameChars gives the characters of each     *)
(* title and author the model uses, and a publish date d, which stands for *)
(* 2025-10-0d, is stored with a time of day.                               *)
(***************************************************************************)
DatePrefixLen == 10

NameChars ==
    [s \in {"Episode", "Updated Episode", "Host", "Unknown podcast"} |->
        CASE s = "Episode" -> <<"E", "p", "i", "s", "o", "d", "e">>
          [] s = "Updated Episode" ->
               <<"U", "p", "d", "a", "t", "e", "d", " ",
                 "E", "p", "i", "s", "o", "d", "e">>
          [] s = "Host" -> <<"H", "o", "s", "t">>
          [] s = "Unknown podcast" ->
               <<"U", "n", "k", "n", "o", "w", "n", " ",
                 "p", "o", "d", "c", "a", "s", "t">>]

Untitled == <<"u", "n", "t", "i", "t", "l", "e", "d">>

Digit(n) == <<"0", "1", "2", "3", "4", "5", "6", "7", "8", "9">>[n + 1]

\* date.isoformat() of day d, and the stored publish_date string.
IsoDate(d) ==
    <<"2", "0", "2", "5", "-", "1", "0", "-", Digit(d \div 10), Digit(d % 10)>>

IsoDateTime(d) == IsoDate(d) \o <<"T", "0", "8", ":", "0", "0">>

\* text[:n].
Prefix(chars, n) == SubSeq(chars, 1, IF Len(chars) < n THEN Len(chars) ELSE n)

\* slugify_component: sanitize_filename(text or ""), "untitled" if that is
\* empty, then every space replaced by "_".
slugify_component(chars) ==
    LET sanitized == sanitize_filename(chars)
        named == IF sanitized = <<>> THEN Untitled ELSE sanitized
    IN [i \in 1..Len(named) |-> IF named[i] = " " THEN "_" ELSE named[i]]

\* podcast_relative_path(publish_date, author, title); publish_date is NOT
\* NULL in the schema.
podcast_relative_path(publish_date, author, title) ==
    LET date_prefix == Prefix(IsoDateTime(publish_date), DatePrefixLen)
        show == IF Truthy(author) THEN author ELSE "Unknown podcast"
    IN <<"unread/Podcasts/">> \o date_prefix \o <<"_">>
         \o slugify_component(NameChars[show]) \o <<"_">>
         \o slugify_component(NameChars[title]) \o <<".", "m", "d">>

daily_digest_relative_path(digest_date) ==
    <<"unread/Daily summary/">> \o IsoDate(digest_date)
      \o <<" ", "d", "a", "i", "l", "y", ".", "m", "d">>

weekly_digest_relative_path(week_end) ==
    <<"unread/Weekly summary/">> \o IsoDate(week_end)
      \o <<" ", "w", "e", "e", "k", "l", "y", ".", "m", "d">>

\* coalesce(e.author, '').
Coalesce(x) == IF x = None THEN "" ELSE x

\* SELECT ... FROM episodes e JOIN summaries s ON s.item_id = e.guid AND
\* s.item_type = 'podcast'.
ExportRows ==
    { e \in episodes :
        \E s \in summaries : s.item_id = e.guid /\ s.item_type = "podcast" }

ExportTarget(e) ==
    podcast_relative_path(e.publish_date, Coalesce(e.author), e.title)

\* The note render_note produces: front matter with the rating left empty.
ExportedNote == <<Fence, RatingEmpty>>

\* handle of cli/export.py: write_note(note_path, note, check_edit=True) for
\* every row, whatever args.dry_run; then git_commit_and_push unless
\* args.dry_run.
Export(dry_run) ==
    /\ Idle
    /\ files' = [p \in DOMAIN files |->
                   IF \E e \in ExportRows : ExportTarget(e) = p
                   THEN write_note(files[p], ExportedNote, TRUE).file
                   ELSE files[p]]
    /\ last' = [op |-> "export", dry_run |-> dry_run,
                written |-> { <<e.guid, ExportTarget(e)>> : e \in ExportRows },
                git |-> ~dry_run]
    /\ UNCHANGED <<episodes, newsletters, transcripts, summaries, clock, run,
                   hist>>

\* The parameters generate_daily_digest / generate_weekly_digest declare and
\* the keyword arguments handle_daily / handle_weekly pass.
GenerateDailyParams == {"date", "podcasts", "newsletters", "failures"}
DailyKwargs ==
    {"date", "podcasts", "newsletters", "top_themes", "actionables", "failures"}
GenerateWeeklyParams ==
    {"week_start", "week_end", "podcasts", "newsletters", "failures"}
WeeklyKwargs ==
    {"week_start", "week_end", "podcasts", "newsletters", "top_themes",
     "actionables", "failures"}

\* The digest the renderer produces.
DigestContent == <<Heading>>

\* A digest command: the queries (SELECT only), then content =
\* generate_..._digest(...), then write_digest(path, content).
BuildDigest(op, path, kwargs, params, digest_date) ==
    /\ Idle
    /\ files' = IF CallAccepted(kwargs, params)
                THEN [files EXCEPT ![path] = WrittenFile(DigestContent)]
                ELSE files
    /\ last' = [op |-> op, date |-> digest_date,
                raised |-> IF CallAccepted(kwargs, params) THEN None
                           ELSE "TypeError"]
    /\ UNCHANGED <<episodes, newsletters, transcripts, summaries, clock, run,
                   hist>>

\* handle_daily.
BuildDaily(digest_date) ==
    BuildDigest("build_daily", daily_digest_relative_path(digest_date), DailyKwargs, GenerateDailyParams, digest_date)

\* handle_weekly.
BuildWeekly(week_end) ==
    BuildDigest("build_weekly", weekly_digest_relative_path(week_end), WeeklyKwargs, GenerateWeeklyParams, week_end)

ExportGuids == {"ep-1", "ep-2"}
ExportAuthors == {None, "Host"}
DigestDates == {9, 10}

ExportPaths ==
    { podcast_relative_path(9, Coalesce(a), t) : a \in ExportAuthors, t \in Titles }
      \cup { daily_digest_relative_path(d) : d \in DigestDates }
      \cup { weekly_digest_relative_path(d) : d \in DigestDates }

\* discover: the feed lists the episode, with the title it has at that time.
DiscoverTitled(guid, author, title) ==
    /\ Idle
    /\ UpsertEpisode(guid, "https://feed", title, 9, author, "https://audio",
                     None, "pending")

ExportInit ==
    /\ episodes = {} /\ newsletters = {} /\ transcripts = {} /\ summaries = {}
    /\ clock = 0 /\ run = IdleRun /\ hist = NoHist
    /\ files = [p \in ExportPaths |-> NoFile]
    /\ last = [op |-> "init"]

ExportNext ==
    \/ \E g \in ExportGuids, a \in ExportAuthors, t \in Titles :
          DiscoverTitled(g, a, t)
    \/ \E g \in ExportGuids, x \in Responses, r \in Ratings :
          SaveSummary(g, "podcast", x, r)
    \/ \E d \in BOOLEAN : Export(d)
    \/ \E d \in DigestDates : BuildDaily(d)
    \/ \E d \in DigestDates : BuildWeekly(d)

SpecExport == ExportInit /\ [][ExportNext]_vars

(***************************************************************************)
(* C21: the note path export computes for an item depends on the date      *)
(* prefix, the sanitized author and the sanitized title only, and is the   *)
(* same in every export run, whatever discovery runs come between: a       *)
(* re-export targets the file the previous export of the item wrote.  So   *)
(* after an export every note file there is is the target of an exported   *)
(* item.                                                                   *)
(***************************************************************************)
JustExported == last.op = "export"

NoteFilesPresent ==
    { p \in DOMAIN files : files[p].exists /\ p[1] = "unread/Podcasts/" }

\* C21: no export leaves behind a note file that is no longer any item's path.
C21_ReexportTargetsSameFile ==
    JustExported =>
        \A p \in NoteFilesPresent : \E w \in last.written : w[2] = p

(***************************************************************************)
(* C22: export, build-daily and build-weekly write nothing to episodes,    *)
(* newsletters, transcripts or summaries, and a digest run writes the      *)
(* digest file of its date (the same file on every run for that date).     *)
(***************************************************************************)
ReadOnlyCommand == last'.op \in {"export", "build_daily", "build_weekly"}

DigestFileWritten ==
    /\ last.op = "build_daily" =>
          files[daily_digest_relative_path(last.date)] = WrittenFile(DigestContent)
    /\ last.op = "build_weekly" =>
          files[weekly_digest_relative_path(last.date)] = WrittenFile(DigestContent)

\* C22: the three commands leave the item store alone and a digest run
\* rewrites the digest file of its date.
C22_ReadOnlyCommandsAndDigestFile ==
    [][ReadOnlyCommand =>
          /\ UNCHANGED <<episodes, newsletters, transcripts, summaries>>
          /\ DigestFileWritten']_vars

(***************************************************************************)
(* C30: export with --dry-run creates or modifies no note file and makes   *)
(* no git commit or push.                                                  *)
(***************************************************************************)
\* C30: a dry-run export leaves every file as it was and does not call git.
C30_DryRunWritesNothing ==
    [][(last'.op = "export" /\ last'.dry_run) =>
          (files' = files /\ ~last'.git)]_vars

(***************************************************************************)
(* C40: _collect_highlights returns at most `limit` themes and at most     *)
(* `limit` actionables, in the order of their first occurrence across the  *)
(* sequence, no two themes with titles equal ignoring case, no two         *)
(* actionables equal ignoring case, and only themes whose title and        *)
(* summary are both non-blank.                                             *)
(***************************************************************************)
CollectionReturned == CollectionOver /\ last.raised = None

\* The key_topics / takeaways entries of all the summaries, as stored.
RECURSIVE RawTopics(_)
RawTopics(structured_summaries) ==
    IF structured_summaries = <<>> THEN <<>>
    ELSE (IF IsJsonObject(Head(structured_summaries))
          THEN json_loads(Head(structured_summaries)).key_topics ELSE <<>>)
         \o RawTopics(Tail(structured_summaries))

RECURSIVE RawTakeaways(_)
RawTakeaways(structured_summaries) ==
    IF structured_summaries = <<>> THEN <<>>
    ELSE (IF IsJsonObject(Head(structured_summaries))
          THEN json_loads(Head(structured_summaries)).takeaways ELSE <<>>)
         \o RawTakeaways(Tail(structured_summaries))

\* Where a title (a text) occurs first among the stored entries.
OccurrencesOfTitle(raw, title) ==
    { j \in 1..Len(raw) :
        /\ Lower(Strip(raw[j].topic)) = Lower(title)
        /\ Strip(raw[j].summary) # <<>> }

OccurrencesOfText(raw, text) ==
    { j \in 1..Len(raw) : Lower(Strip(raw[j].text)) = Lower(text) }

First(indices) == CHOOSE j \in indices : \A k \in indices : j <= k

ThemesAreFirstOccurrences(themes, raw) ==
    /\ \A k \in 1..Len(themes) :
          /\ themes[k][1] # <<>> /\ themes[k][2] # <<>>
          /\ Strip(themes[k][1]) = themes[k][1]
          /\ OccurrencesOfTitle(raw, themes[k][1]) # {}
          /\ LET j == First(OccurrencesOfTitle(raw, themes[k][1]))
             IN themes[k] = <<Strip(raw[j].topic), Strip(raw[j].summary)>>
    /\ \A k, l \in 1..Len(themes) :
          k < l => /\ Lower(themes[k][1]) # Lower(themes[l][1])
                   /\ First(OccurrencesOfTitle(raw, themes[k][1]))
                        < First(OccurrencesOfTitle(raw, themes[l][1]))

ActionablesAreFirstOccurrences(actionables, raw) ==
    /\ \A k \in 1..Len(actionables) :
          /\ actionables[k] # <<>>
          /\ OccurrencesOfText(raw, actionables[k]) # {}
          /\ actionables[k]
               = Strip(raw[First(OccurrencesOfText(raw, actionables[k]))].text)
    /\ \A k, l \in 1..Len(actionables) :
          k < l => /\ Lower(actionables[k]) # Lower(actionables[l])
                   /\ First(OccurrencesOfText(raw, actionables[k]))
                        < First(OccurrencesOfText(raw, actionables[l]))

\* C40: a returned collection is capped at the limit, deduplicated ignoring
\* case, in first-occurrence order, and holds complete themes only.
C40_HighlightsCappedAndDeduplicated ==
    CollectionReturned =>
        /\ Len(last.themes) <= last.limit
        /\ Len(last.actionables) <= last.limit
        /\ ThemesAreFirstOccurrences(last.themes, RawTopics(last.summaries))
        /\ ActionablesAreFirstOccurrences(last.actionables,
                                          RawTakeaways(last.summaries))

\* Two summaries with four complete topics, one a repeat in another case and
\* one incomplete, were collected with limit 2: two themes came back.
C40_Witness ==
    /\ CollectionReturned
    /\ last.limit = 2
    /\ last.summaries = <<SummaryAI, SummaryAiAgain>>
    /\ Len(last.themes) = 2
    /\ Len(last.actionables) = 2

(***************************************************************************)
(* C32: in every reachable state an episode has a transcript row only if   *)
(* its status has been completed at some point.  Discovery and the three   *)
(* stages never move an item out of completed, so under them "has been     *)
(* completed" is "is completed".                                           *)
(***************************************************************************)
\* C32: every transcript row belongs to a completed episode.
C32_TranscriptOnlyAfterCompleted ==
    \A t \in transcripts :
        \E e \in episodes : e.guid = t.episode_guid /\ e.status = "completed"

(***************************************************************************)
(* C33: with discovery runs and audio-stage runs executed one at a time,   *)
(* an episode is claimed (set to in_progress, its download attempted) at   *)
(* most once before the first operator reset (retry command or reset       *)
(* script) and at most once between two resets.  A claim is made on a      *)
(* stored pending episode only, and no step but an operator reset makes an *)
(* episode that has left pending pending again.                            *)
(***************************************************************************)
OperatorReset == last'.op \in {"retry", "reset_missing_yt_dlp_failures"}

ClaimsPendingOnly ==
    last'.op = "audio_claim" =>
        \A e \in EpisodeRows(episodes, last'.id) : e.status = "pending"

PendingOnlyByReset ==
    \A e \in episodes :
        e.status # "pending" =>
            \/ OperatorReset
            \/ \A e2 \in EpisodeRows(episodes', e.guid) : e2.status # "pending"

\* C33: between operator resets an episode is claimed at most once.
C33_ClaimedAtMostOncePerReset ==
    [][ClaimsPendingOnly /\ PendingOnlyByReset]_vars

\* An episode that a run has claimed and completed is found again by a
\* discovery run.
C33_Witness ==
    /\ last.op = "upsert_episode" /\ last.existed
    /\ \E e \in EpisodeRows(episodes, last.id) : e.status = "completed"

(***************************************************************************)
(* An operator command that commits while an audio-stage run is under way: *)
(* the commands and the run are separate processes on one database.        *)
(***************************************************************************)
AudioRunning == run.stage = "audio"

\* skip <id>, committed during a run.
SkipWhileRunning(item_id) ==
    /\ AudioRunning
    /\ episodes' = skip_episodes(episodes, item_id, clock)
    /\ newsletters' = skip_newsletters(episodes, newsletters, item_id, clock)
    /\ last' = [op |-> "skip", id |-> item_id,
                from |-> StatusOfId(episodes, newsletters, item_id)]
    /\ UNCHANGED <<transcripts, summaries, clock, run, hist, files>>

\* retry <id>, committed during a run.
RetryWhileRunning(item_id) ==
    /\ AudioRunning
    /\ episodes' = retry_episodes(episodes, item_id, clock)
    /\ newsletters' = retry_newsletters(episodes, newsletters, item_id, clock)
    /\ last' = [op |-> "retry", id |-> item_id,
                from |-> StatusOfId(episodes, newsletters, item_id)]
    /\ UNCHANGED <<transcripts, summaries, clock, run, hist, files>>

RaceInit == StoreInit

RaceNext ==
    \/ \E x \in LifeEpisodes : DiscoverEpisode(x[1], x[2], x[3])
    \/ \E n \in LifeLimits : AudioStart(n)
    \/ AudioNoUrl
    \/ AudioClaim
    \/ AudioDownloadOk
    \/ \E t \in Texts : AudioTranscribeOk(t)
    \/ AudioPersistOk
    \/ AudioComplete
    \/ \E m \in DownloadErrors : AudioRaise("download", m)
    \/ AudioFinish
    \/ Return
    \/ \E i \in PipeGuids : SkipWhileRunning(i)
    \/ \E i \in PipeGuids : RetryWhileRunning(i)

SpecRace == RaceInit /\ [][RaceNext]_vars

(***************************************************************************)
(* C34: when a skip (or retry) command for an episode commits after an     *)
(* audio-stage run has read its batch and before the run has finished the  *)
(* episode, the run's later writes of in_progress, completed or failed do  *)
(* not overwrite the operator's status.                                    *)
(***************************************************************************)
OperatorJustCommitted == last.op \in {"skip", "retry"}

RunWritesStatus ==
    last'.op \in {"audio_no_url", "audio_claim", "audio_complete", "audio_raise"}

C36_OneEpisodePerNotePath ==
    JustExported =>
        \A w1 \in last.written : \A w2 \in last.written :
            w1[2] = w2[2] => w1[1] = w2[1]

(***************************************************************************)
(* One pass over the pipeline: discover, process-audio, process-            *)
(* newsletters, summarize and export, each command finishing before the    *)
(* next starts.  The driver is scripts/backfill_historical.py, which calls *)
(* the cmd_* functions of cli.py, or an operator who runs the commands of  *)
(* src/cli in the same order.  run.script holds the pass's arguments.      *)
(***************************************************************************)
PassRun(script) ==
    [stage |-> "idle", runner |-> None, batch |-> <<>>, idx |-> 0,
     step |-> None, text |-> None, resp |-> None, rating |-> None,
     script |-> script]

PassDrivers == {"backfill", "cli"}
PassLimits == {NoLimit, 1}
PassFeeds == {{<<"ep-1", 9, "https://audio">>}, LifeEpisodes}

\* for episode in episodes: upsert_episode(conn, guid=episode.guid, ...).
RECURSIVE UpsertFeed(_, _, _)
UpsertFeed(rows, feed, now) ==
    IF feed = {} THEN rows
    ELSE LET x == CHOOSE y \in feed : TRUE
         IN UpsertFeed(upsert_episode(rows, x[1], "https://feed", "Episode",
                                      x[2], "Host", x[3], None, "pending", now),
                       feed \ {x}, now)

\* main() with --dry-run: the five steps are logged and main returns.
BackfillDryRun ==
    /\ Idle
    /\ last' = [op |-> "backfill_dry_run"]
    /\ UNCHANGED <<episodes, newsletters, transcripts, summaries, clock, run,
                   hist, files>>

\* Step 1, cmd_discover / handle of cli/discover.py: every episode of the
\* feeds and every newsletter of the inbox is upserted.
PassDiscover(driver, no_push, limit, feed) ==
    /\ Idle
    /\ episodes' = UpsertFeed(episodes, feed, clock)
    /\ newsletters' = upsert_newsletter(newsletters, "msg-1", "Episode",
                                        "sender@example.com", 9, None, "Hello",
                                        None, "pending", clock)
    /\ run' = [PassRun([driver |-> driver, no_push |-> no_push,
                        limit |-> limit])
                 EXCEPT !.stage = "discovered"]
    /\ hist' = NoHist
    /\ last' = [op |-> "pass_discover", driver |-> driver]
    /\ UNCHANGED <<transcripts, summaries, clock, files>>

\* Step 2: pending = get_pending_episodes(conn, limit=args.limit).
PassProcessAudio ==
    /\ run.stage = "discovered"
    /\ \E b \in get_pending_episodes(episodes, run.script.limit) :
          run' = [run EXCEPT !.stage = "audio", !.runner = "process_pending",
                             !.batch = b, !.idx = 1, !.step = "check"]
    /\ last' = [op |-> "audio_start", limit |-> run.script.limit]
    /\ UNCHANGED <<episodes, newsletters, transcripts, summaries, clock, hist,
                   files>>

\* Step 3: pending = get_pending_newsletters(conn, limit=args.limit).
PassProcessNewsletters ==
    /\ run.stage = "audio_done"
    /\ \E b \in get_pending_newsletters(newsletters, run.script.limit) :
          run' = [run EXCEPT !.stage = "newsletter",
                             !.runner = "process_newsletters",
                             !.batch = b, !.idx = 1, !.step = "check"]
    /\ last' = [op |-> "newsletter_start", limit |-> run.script.limit]
    /\ UNCHANGED <<episodes, newsletters, transcripts, summaries, clock, hist,
                   files>>

\* Step 4: items = get_items_needing_summary(conn, limit=args.limit), in
\* cmd_summarize for the script and in cli/summarize.py for the operator.
PassSummarize ==
    /\ run.stage = "newsletter_done"
    /\ \E b \in get_items_needing_summary(episodes, newsletters, summaries,
                                          run.script.limit) :
          run' = [run EXCEPT !.stage = "summarize",
                             !.runner = IF run.script.driver = "backfill"
                                        THEN "cmd_summarize" ELSE "handle",
                             !.batch = b, !.idx = 1, !.step = "check"]
    /\ last' = [op |-> "summarize_start", limit |-> run.script.limit]
    /\ UNCHANGED <<episodes, newsletters, transcripts, summaries, clock, hist,
                   files>>

\* cmd_export's note path: output_root / f"{date[:10]} - {safe_title}.md".
legacy_note_path(date, title) ==
    <<"output_root/">> \o Prefix(IsoDateTime(date), DatePrefixLen)
      \o <<" ", "-", " ">> \o sanitize_filename(NameChars[title])
      \o <<".", "m", "d">>

\* The rows cmd_export writes: episodes JOIN summaries (item_type 'podcast')
\* and newsletters JOIN summaries (item_type 'newsletter').
LegacyExportRows ==
    { <<e.guid, legacy_note_path(e.publish_date, e.title)>> :
        e \in { x \in episodes :
                  \E s \in summaries :
                     s.item_id = x.guid /\ s.item_type = "podcast" } }
    \cup
    { <<n.message_id, legacy_note_path(n.date, n.subject)>> :
        n \in { x \in newsletters :
                  \E s \in summaries :
                     s.item_id = x.message_id /\ s.item_type = "newsletter" } }

\* The (id, path) pairs the export of the pass writes.
PassExportRows ==
    IF run.script.driver = "backfill" THEN LegacyExportRows
    ELSE { <<e.guid, ExportTarget(e)>> : e \in ExportRows }

\* getattr(args, "dry_run", False): the script's export_args has the
\* attribute push only; the operator's args has dry_run.
ExportArgsDryRun(dry_run) ==
    IF run.script.driver = "backfill" THEN FALSE ELSE dry_run

\* Step 5, cmd_export / handle of cli/export.py: write_note for every row,
\* then git_commit_and_push unless args.dry_run.
PassExport(dry_run) ==
    /\ run.stage = "summarize_done"
    /\ files' = [p \in DOMAIN files |->
                   IF \E w \in PassExportRows : w[2] = p
                   THEN write_note(files[p], ExportedNote, TRUE).file
                   ELSE files[p]]
    /\ run' = PassRun(run.script)
    /\ last' = [op |-> "pass_export", driver |-> run.script.driver,
                no_push |-> run.script.no_push, limit |-> run.script.limit,
                written |-> PassExportRows,
                git |-> ~ExportArgsDryRun(dry_run)]
    /\ UNCHANGED <<episodes, newsletters, transcripts, summaries, clock, hist>>

PassPaths ==
    { podcast_relative_path(d, "Host", "Episode") : d \in PipeDates }
      \cup { legacy_note_path(d, "Episode") : d \in PipeDates }

PassInit ==
    /\ episodes = {} /\ newsletters = {} /\ transcripts = {} /\ summaries = {}
    /\ clock = 0 /\ run = IdleRun /\ hist = NoHist
    /\ files = [p \in PassPaths |-> NoFile]
    /\ last = [op |-> "init"]

PassNext ==
    \/ BackfillDryRun
    \/ \E d \in PassDrivers, np \in BOOLEAN, n \in PassLimits, f \in PassFeeds :
          PassDiscover(d, np, n, f)
    \/ PassProcessAudio
    \/ AudioNoUrl
    \/ AudioClaim
    \/ AudioDownloadOk
    \/ \E t \in Texts : AudioTranscribeOk(t)
    \/ AudioPersistOk
    \/ AudioComplete
    \/ \E m \in DownloadErrors : AudioRaise("download", m)
    \/ AudioFinish
    \/ PassProcessNewsletters
    \/ NewsletterClaim
    \/ NewsletterComplete
    \/ \E m \in ParseErrors : NewsletterRaise(m)
    \/ NewsletterFinish
    \/ PassSummarize
    \/ SummarizeSkipKind
    \/ SummarizeSkipNoTranscript
    \/ SummarizeFetch
    \/ \E x \in Responses : SummarizerOk(x)
    \/ \E x \in Ratings : RaterOk(x)
    \/ \E m \in LlmErrors : SummarizeRaise("summarize", m)
    \/ SummarizeSave
    \/ SummarizeFinish
    \/ \E d \in BOOLEAN : PassExport(d)
    \/ \E i \in PipeGuids : Retry(i)
    \/ \E i \in PipeGuids : Skip(i)

SpecPass == PassInit /\ [][PassNext]_vars

(***************************************************************************)
(* C31: the backfill script run with --no-push performs the export step    *)
(* without any git commit or push, and run with --dry-run executes none of *)
(* the five steps.                                                         *)
(***************************************************************************)
BackfillExported == last.op = "pass_export" /\ last.driver = "backfill"

\* C31: a --no-push backfill ends without a git commit or push, and a
\* --dry-run backfill writes neither the store nor a file.
C31_BackfillNoPushAndDryRun ==
    [][/\ (BackfillExported' /\ last'.no_push) => ~last'.git
       /\ last'.op = "backfill_dry_run" =>
             UNCHANGED <<episodes, newsletters, transcripts, summaries, files>>]_vars

(***************************************************************************)
(* C37: every note an export run writes belongs to an item that has a      *)
(* Summary row and whose status is completed at the time of the export.    *)
(***************************************************************************)
PassExported == last.op = "pass_export"

\* C37: the items of an export run have a Summary row and are completed.
C37_ExportedItemsAreSummarizedAndCompleted ==
    PassExported =>
        \A w \in last.written :
            /\ \E s \in summaries : s.item_id = w[1]
            /\ StatusOfId(episodes, newsletters, w[1]) = "completed"

(***************************************************************************)
(* C39: an episode with an audio URL whose download, transcription,        *)
(* summarization and rating all succeed is, after one pass run without     *)
(* limits, completed, has its transcript and its Summary, and has had its  *)
(* note written.                                                           *)
(***************************************************************************)
CollaboratorErrors ==
    DownloadErrors \cup TranscribeErrors \cup PersistErrors \cup LlmErrors

\* The pass downloaded and transcribed the episode to a text, and nothing
\* a collaborator did for it raised.
AllSucceededFor(guid) ==
    /\ <<guid, "download">> \in hist.calls
    /\ <<guid, "Transcript text">> \in hist.heard
    /\ \A m \in CollaboratorErrors : <<guid, m>> \notin hist.raised

NoteWrittenFor(guid) == \E w \in last.written : w[1] = guid

\* C39: at the end of such a pass the episode is completed, transcribed,
\* summarized and exported.
C39_OnePassTakesEpisodeToNote ==
    (PassExported /\ last.limit = NoLimit) =>
        \A e \in episodes :
            (Truthy(e.audio_url) /\ AllSucceededFor(e.guid)) =>
                /\ e.status = "completed"
                /\ TranscriptRows(transcripts, e.guid) # {}
                /\ SummaryRows(summaries, e.guid) # {}
                /\ NoteWrittenFor(e.guid)

(***************************************************************************)
(* The failures section of the daily digest (handle_daily of               *)
(* cli/digests.py, cmd_build_daily of cli.py).  The clock counts instants, *)
(* TicksPerDay of them to a day; hist.failed_on records, for each          *)
(* identity, the instant of its latest failure.                            *)
(***************************************************************************)
MaxStamp == 3
TicksPerDay == 2

\* CAST(ts AS DATE).
CastAsDate(ts) == ts \div TicksPerDay

DigestDays == 0..CastAsDate(MaxStamp)

\* now() moves on, possibly into the next day.
StampTick ==
    /\ clock < MaxStamp
    /\ clock' = clock + 1
    /\ last' = [op |-> "tick"]
    /\ UNCHANGED <<episodes, newsletters, transcripts, summaries, run, hist,
                   files>>

FailedOn(h, id, now) ==
    [h EXCEPT !.failed_on = { x \in @ : x[1] # id } \cup {<<id, now>>}]

\* The audio stage fails a pending episode: mark_failed(guid, "No audio URL")
\* or, after the claim, mark_failed(guid, str(exc)).
FailEpisode(guid, msg) ==
    /\ Idle
    /\ \E e \in episodes : e.guid = guid /\ e.status = "pending"
    /\ episodes' = mark_failed(mark_in_progress(episodes, guid, clock), guid,
                               msg, clock)
    /\ hist' = FailedOn(hist, guid, clock)
    /\ last' = [op |-> "fail_episode", id |-> guid]
    /\ UNCHANGED <<newsletters, transcripts, summaries, clock, run, files>>

\* The newsletter stage fails a pending newsletter.
FailNewsletter(message_id, msg) ==
    /\ Idle
    /\ \E n \in newsletters : n.message_id = message_id /\ n.status = "pending"
    /\ newsletters' = update_newsletter_status(
                         update_newsletter_status(newsletters, message_id,
                                                  "in_progress", None, clock),
                         message_id, "failed", msg, clock)
    /\ hist' = FailedOn(hist, message_id, clock)
    /\ last' = [op |-> "fail_newsletter", id |-> message_id]
    /\ UNCHANGED <<episodes, transcripts, summaries, clock, run, files>>

\* SELECT title, error_reason FROM episodes / newsletters WHERE status =
\* 'failed' AND CAST(updated_at AS DATE) = ?: one entry per row; the
\* identity stands for the row.
DailyFailures(eps, nls, target_date) ==
    { [id |-> e.guid, title |-> e.title, type |-> "podcast",
       error_reason |-> Coalesce(e.error_reason)] :
        e \in { x \in eps : /\ x.status = "failed"
                            /\ CastAsDate(x.updated_at) = target_date } }
    \cup
    { [id |-> n.message_id, title |-> n.subject, type |-> "newsletter",
       error_reason |-> Coalesce(n.error_reason)] :
        n \in { x \in nls : /\ x.status = "failed"
                            /\ CastAsDate(x.updated_at) = target_date } }

\* The digest command up to the call of generate_daily_digest, which gets
\* the failures it has listed and raises TypeError when a keyword is not
\* one of its parameters.
BuildDailyFailures(target_date) ==
    /\ Idle
    /\ files' = IF CallAccepted(DailyKwargs, GenerateDailyParams)
                THEN [files EXCEPT ![daily_digest_relative_path(target_date)] =
                                      WrittenFile(DigestContent)]
                ELSE files
    /\ last' = [op |-> "build_daily_failures", date |-> target_date,
                failures |-> DailyFailures(episodes, newsletters, target_date),
                raised |-> IF CallAccepted(DailyKwargs, GenerateDailyParams)
                           THEN None ELSE "TypeError"]
    /\ UNCHANGED <<episodes, newsletters, transcripts, summaries, clock, run,
                   hist>>

FailuresInit ==
    /\ episodes = {} /\ newsletters = {} /\ transcripts = {} /\ summaries = {}
    /\ clock = 0 /\ run = IdleRun /\ hist = [failed_on |-> {}]
    /\ files = [p \in { daily_digest_relative_path(d) : d \in DigestDays } |->
                  NoFile]
    /\ last = [op |-> "init"]

FailureGuids == {"ep-1"}

FailuresNext ==
    \/ StampTick
    \/ \E g \in FailureGuids : DiscoverEpisode(g, 9, "https://audio")
    \/ \E m \in PipeMessageIds : DiscoverNewsletter(m)
    \/ \E g \in FailureGuids, m \in DownloadErrors : FailEpisode(g, m)
    \/ \E i \in PipeMessageIds, m \in ParseErrors : FailNewsletter(i, m)
    \/ \E i \in FailureGuids \cup PipeMessageIds : Retry(i)
    \/ \E d \in DigestDays : BuildDailyFailures(d)

SpecFailures == FailuresInit /\ [][FailuresNext]_vars

(***************************************************************************)
(* C38: the failures section of the daily digest for date D lists exactly  *)
(* the items whose status is failed when the digest is built and whose     *)
(* failure occurred on D, whatever discovery runs came between the failure *)
(* and the build; an item reset by retry is no longer listed.              *)
(***************************************************************************)
FailedItems ==
    { e.guid : e \in { x \in episodes : x.status = "failed" } }
      \cup { n.message_id : n \in { x \in newsletters : x.status = "failed" } }

\* C38: the listed items are the failed items whose failure was on the
\* digest's date.
C38_FailuresListedByFailureDate ==
    last.op = "build_daily_failures" =>
        { f.id : f \in last.failures } =
            { i \in FailedItems :
                \E x \in hist.failed_on :
                    x[1] = i /\ CastAsDate(x[2]) = last.date }

(***************************************************************************)
(* Repeated summarization runs over a store the audio and newsletter       *)
(* stages have filled: two completed episodes with their transcripts and a *)
(* completed newsletter.  Every run is started with a positive limit; the  *)
(* summarizer and the rater always return.  A command that can take a step *)
(* takes it, and when one run has returned the next is started.            *)
(***************************************************************************)
RepeatLimits == {1, 2}

\* discover, then the audio stage: mark_in_progress, save_transcript,
\* mark_completed for each episode.
ProcessedEpisodes ==
    mark_completed(
      mark_completed(
        mark_in_progress(
          mark_in_progress(UpsertFeed({}, {<<"ep-1", 9, "https://audio">>,
                                           <<"ep-2", 10, "https://audio">>}, 0),
                           "ep-1", 0),
          "ep-2", 0),
        "ep-1", 0),
      "ep-2", 0)

TranscribedAs(text1, text2) ==
    save_transcript(save_transcript({}, "ep-1", text1, TranscriptPath("ep-1"), 0),
                    "ep-2", text2, TranscriptPath("ep-2"), 0)

\* discover, then the newsletter stage.
ProcessedNewsletters ==
    update_newsletter_status(
      update_newsletter_status(
        upsert_newsletter({}, "msg-1", "Episode", "sender@example.com", 9, None,
                          "Hello", None, "pending", 0),
        "msg-1", "in_progress", None, 0),
      "msg-1", "completed", None, 0)

RepeatInit ==
    /\ episodes = ProcessedEpisodes
    /\ newsletters \in {{}, ProcessedNewsletters}
    /\ \E t1 \in Texts, t2 \in Texts : transcripts = TranscribedAs(t1, t2)
    /\ summaries = {}
    /\ clock = 0 /\ run = IdleRun /\ hist = NoHist
    /\ files = [p \in NotePaths |-> NoFile]
    /\ last = [op |-> "init"]

RepeatNext ==
    \/ \E r \in Runners, n \in RepeatLimits : SummarizeStart(r, n)
    \/ SummarizeSkipKind
    \/ SummarizeSkipNoTranscript
    \/ SummarizeFetch
    \/ \E x \in Responses : SummarizerOk(x)
    \/ \E x \in Ratings : RaterOk(x)
    \/ SummarizeSave
    \/ SummarizeFinish
    \/ Return

SpecRepeat == RepeatInit /\ [][RepeatNext]_vars

SpecRepeatFair == SpecRepeat /\ WF_vars(RepeatNext)

(***************************************************************************)
(* C35: with a limit L >= 1, repeated summarization runs whose summarizer  *)
(* and rater always succeed eventually give a Summary to every completed   *)
(* episode that has a non-empty transcript, even when candidates selected  *)
(* ahead of it are skipped on every run.                                   *)
(***************************************************************************)
Summarizable(guid) ==
    /\ \E e \in episodes : e.guid = guid /\ e.status = "completed"
    /\ Truthy(get_transcript_text(transcripts, guid))

HasSummary(guid) ==
    \E s \in summaries : s.item_id = guid /\ s.item_type = "podcast"

\* C35: every completed episode with a non-empty transcript is eventually
\* given a Summary.
C35_EverySummarizableEpisodeIsSummarized ==
    \A g \in PipeGuids : Summarizable(g) ~> HasSummary(g)

====
